---------------------------- MODULE Spec2Model ----------------------------
(***************************************************************************)
(* A model of the nand2tetris toolchain of this repository:                *)
(*   projects/06/hack_assembler.py   the Hack assembler                    *)
(*   projects/08/VMTranslator.py     the VM translator                     *)
(*   projects/11/JackCompiler.py     the Jack compiler, with its tokenizer *)
(*                                   parser and symbol table               *)
(* Text is modelled as sequences of one-character strings, so that         *)
(* parsing (index of ';' and '='), number formatting ('{}'.format(n)) and  *)
(* number parsing (int(s)) are computed as the code computes them.         *)
(***************************************************************************)
EXTENDS Integers, Sequences, FiniteSets, TLC

VARIABLES
  given,   \* the input handed to the tool under analysis (never modified)
  asm,     \* the Assembler object of hack_assembler.py and its loop position
  vm,      \* the state of VMTranslator.py's translation loops
  cpu,     \* a Hack computer executing translated code
  jack     \* the state of JackCompiler.py's main loop and its CodeWriter

vars == <<given, asm, vm, cpu, jack>>

(***************************************************************************)
(* Bounds of the model.                                                    *)
(***************************************************************************)
\* Longest assembly program (in lines) drawn from AsmAlphabet.
MaxLines == 3

(***************************************************************************)
(* Text helpers: Python's str operations on sequences of characters.       *)
(***************************************************************************)
Range(s) == {s[k] : k \in 1..Len(s)}

Digits == <<"0", "1", "2", "3", "4", "5", "6", "7", "8", "9">>

DigitChar(d) == Digits[d + 1]

DigitVal(c) == CHOOSE d \in 0..9 : Digits[d + 1] = c

\* '{}'.format(n) for an integer n: its decimal digits, '-' first when n < 0.
RECURSIVE NatStr(_)
NatStr(n) == IF n < 10 THEN <<DigitChar(n)>>
             ELSE Append(NatStr(n \div 10), DigitChar(n % 10))

Str(n) == IF n < 0 THEN <<"-">> \o NatStr(0 - n) ELSE NatStr(n)

AllDigits(s) == Len(s) > 0 /\ \A k \in 1..Len(s) : s[k] \in Range(Digits)

\* Whether int(s) succeeds: an optional sign and at least one digit.
\* (Python also accepts '_' between digits; no input here uses it.)
IsInt(s) ==
  \/ AllDigits(s)
  \/ Len(s) > 1 /\ s[1] \in {"+", "-"} /\ AllDigits(Tail(s))

RECURSIVE DigitsVal(_)
DigitsVal(s) == IF s = <<>> THEN 0
                ELSE 10 * DigitsVal(SubSeq(s, 1, Len(s) - 1)) + DigitVal(s[Len(s)])

\* int(s), for s with IsInt(s).
ParseInt(s) == IF s[1] = "-" THEN 0 - DigitsVal(Tail(s))
          ELSE IF s[1] = "+" THEN DigitsVal(Tail(s))
          ELSE DigitsVal(s)

\* s.index(c) for a one-character c: the first position of c, 0 when absent
\* (where Python raises ValueError).
IndexOf(s, c) == IF c \in Range(s)
                 THEN CHOOSE k \in 1..Len(s) : s[k] = c /\ \A j \in 1..(k - 1) : s[j] # c
                 ELSE 0

\* list.index(x): the first position of x in list, counted from 0; -1 when absent.
ListIndex(list, x) == IF x \in Range(list)
                      THEN (CHOOSE k \in 1..Len(list) :
                              list[k] = x /\ \A j \in 1..(k - 1) : list[j] # x) - 1
                      ELSE -1

\* line.index('//'): the first position of two consecutive slashes, 0 when absent.
CommentAt(line) ==
  LET hits == {k \in 1..(Len(line) - 1) : line[k] = "/" /\ line[k + 1] = "/"}
  IN IF hits = {} THEN 0 ELSE CHOOSE k \in hits : \A j \in hits : k <= j

StripComment(line) == IF CommentAt(line) = 0 THEN line
                      ELSE SubSeq(line, 1, CommentAt(line) - 1)

Whitespace == {" ", "\t", "\r"}

NotWhitespace(c) == c \notin Whitespace

\* ''.join(l.strip().split()): l without any whitespace.
RemoveWhitespace(l) == SelectSeq(l, NotWhitespace)

\* s.split('\n'): always at least one (possibly empty) piece.
SplitLines(s) ==
  LET breaks == {k \in 1..Len(s) : s[k] = "\n"}
      \* the position of the k-th line break; 0 and Len(s) + 1 bound the text
      break(k) == IF k = 0 THEN 0
                  ELSE IF k > Cardinality(breaks) THEN Len(s) + 1
                  ELSE CHOOSE b \in breaks : Cardinality({c \in breaks : c < b}) = k - 1
  IN [k \in 1..(Cardinality(breaks) + 1) |-> SubSeq(s, break(k - 1) + 1, break(k) - 1)]

\* '\n'.join(lines)
RECURSIVE JoinLines(_)
JoinLines(lines) ==
  IF lines = <<>> THEN <<>>
  ELSE IF Len(lines) = 1 THEN lines[1]
  ELSE LET half == Len(lines) \div 2
       IN JoinLines(SubSeq(lines, 1, half)) \o <<"\n">>
          \o JoinLines(SubSeq(lines, half + 1, Len(lines)))

PreprocessInput(file_content) ==
  LET ls == SplitLines(file_content)
  IN [k \in 1..Len(ls) |-> StripComment(RemoveWhitespace(ls[k]))]

(***************************************************************************)
(* 16-bit words.                                                           *)
(***************************************************************************)
RECURSIVE Pow2(_)
Pow2(k) == IF k = 0 THEN 1 ELSE 2 * Pow2(k - 1)

\* 1 << 16
WordMod == Pow2(16)

Bit(x, k) == (x \div Pow2(k)) % 2

RECURSIVE BitOrUpTo(_, _, _)
BitOrUpTo(x, y, k) ==
  IF k < 0 THEN 0
  ELSE (IF Bit(x, k) = 1 \/ Bit(y, k) = 1 THEN Pow2(k) ELSE 0) + BitOrUpTo(x, y, k - 1)

RECURSIVE BitAndUpTo(_, _, _)
BitAndUpTo(x, y, k) ==
  IF k < 0 THEN 0
  ELSE (IF Bit(x, k) = 1 /\ Bit(y, k) = 1 THEN Pow2(k) ELSE 0) + BitAndUpTo(x, y, k - 1)

BitOr(x, y) == BitOrUpTo(x, y, 15)

BitAnd(x, y) == BitAndUpTo(x, y, 15)

\* '{0:b}'.format(x) for x >= 0
RECURSIVE BinStr(_)
BinStr(x) == IF x < 2 THEN <<DigitChar(x)>>
             ELSE Append(BinStr(x \div 2), DigitChar(x % 2))

RECURSIVE Zeros(_)
Zeros(k) == IF k <= 0 THEN <<>> ELSE <<"0">> \o Zeros(k - 1)

(***************************************************************************)
(* The assembler: projects/06/hack_assembler.py                            *)
(***************************************************************************)
PredefinedSymbols ==
  [s \in {<<"R">> \o Str(r) : r \in 0..15} |-> ParseInt(Tail(s))] @@
  (<<"S","C","R","E","E","N">> :> 16384) @@
  (<<"K","B","D">> :> 24576) @@
  (<<"S","P">> :> 0) @@
  (<<"L","C","L">> :> 1) @@
  (<<"A","R","G">> :> 2) @@
  (<<"T","H","I","S">> :> 3) @@
  (<<"T","H","A","T">> :> 4)

c_bit_table_ ==
  (<<"0">> :> 42) @@
  (<<"1">> :> 63) @@
  (<<"-","1">> :> 58) @@
  (<<"D">> :> 12) @@
  (<<"A">> :> 48) @@
  (<<"M">> :> 48) @@
  (<<"!","D">> :> 13) @@
  (<<"!","A">> :> 49) @@
  (<<"!","M">> :> 49) @@
  (<<"-","D">> :> 15) @@
  (<<"-","A">> :> 51) @@
  (<<"-","M">> :> 51) @@
  (<<"D","+","1">> :> 31) @@
  (<<"A","+","1">> :> 55) @@
  (<<"M","+","1">> :> 55) @@
  (<<"D","-","1">> :> 14) @@
  (<<"A","-","1">> :> 50) @@
  (<<"M","-","1">> :> 50) @@
  (<<"D","+","A">> :> 2) @@
  (<<"D","+","M">> :> 2) @@
  (<<"D","-","A">> :> 19) @@
  (<<"D","-","M">> :> 19) @@
  (<<"A","-","D">> :> 7) @@
  (<<"M","-","D">> :> 7) @@
  (<<"D","&","A">> :> 0) @@
  (<<"D","&","M">> :> 0) @@
  (<<"D","|","A">> :> 21) @@
  (<<"D","|","M">> :> 21)

a_bit_set_NoOrM ==
  {<<"M">>, <<"!","M">>, <<"-","M">>, <<"M","+","1">>, <<"M","-","1">>,
   <<"D","+","M">>, <<"D","-","M">>, <<"M","-","D">>, <<"D","&","M">>}

a_bit_set_ ==
  {<<"M">>, <<"!","M">>, <<"-","M">>, <<"M","+","1">>, <<"M","-","1">>,
   <<"D","+","M">>, <<"D","-","M">>, <<"M","-","D">>, <<"D","&","M">>,
   <<"D","|","M">>}

DestList ==
  << <<"n","u","l","l">>, <<"M">>, <<"D">>, <<"M","D">>,
     <<"A">>, <<"A","M">>, <<"A","D">>, <<"A","M","D">> >>

JumpList ==
  << <<"n","u","l","l">>, <<"J","G","T">>, <<"J","E","Q">>, <<"J","G","E">>,
     <<"J","L","T">>, <<"J","N","E">>, <<"J","L","E">>, <<"J","M","P">> >>

\* Assembler.__init__: the object right after construction, about to run
\* FirstPass.  i is the loop index of the running pass (from 1), n the ROM
\* address counter of FirstPass, err the exception that ended the run.
Assembler(file_content) ==
  [asm_content_ |-> PreprocessInput(file_content),
   cur_line_    |-> <<>>,
   symbols_     |-> PredefinedSymbols,
   labels_      |-> {},
   var_addr_    |-> 16,
   output_      |-> <<>>,
   written      |-> <<>>,
   pc           |-> "FirstPass",
   i            |-> 1,
   n            |-> 0,
   err          |-> ""]

\* The state when nothing is being assembled.
NoAssembler == [Assembler(<<>>) EXCEPT !.pc = "idle"]

Raise(a, exc) == [a EXCEPT !.pc = "error", !.err = exc]

\* Leaving a pass's for loop once its last line is done.
EndOfLoop(a, next) ==
  IF a.pc # "error" /\ a.i > Len(a.asm_content_)
  THEN [a EXCEPT !.pc = next, !.i = 1]
  ELSE a

\* FirstPass without the predefined-symbol check: the label is always bound.
FirstPassLineNoCheck(a) ==
  LET line == a.asm_content_[a.i]
  IN IF line = <<>> THEN [a EXCEPT !.i = @ + 1]
     ELSE IF line[1] # "(" THEN [a EXCEPT !.n = @ + 1, !.i = @ + 1]
     ELSE LET symbol == SubSeq(line, 2, Len(line) - 1)
          IN [a EXCEPT !.labels_ = @ \cup {a.i},
                       !.symbols_ = (symbol :> a.n) @@ @,
                       !.i = @ + 1]

\* FirstPass counting label lines as instructions too.
FirstPassLineCountsLabels(a) ==
  LET line == a.asm_content_[a.i]
  IN IF line = <<>> THEN [a EXCEPT !.i = @ + 1]
     ELSE IF line[1] # "(" THEN [a EXCEPT !.n = @ + 1, !.i = @ + 1]
     ELSE LET symbol == SubSeq(line, 2, Len(line) - 1)
              b == [a EXCEPT !.labels_ = @ \cup {a.i}]
          IN IF symbol \in DOMAIN a.symbols_
             THEN Raise(b, "SyntaxError")
             ELSE [b EXCEPT !.symbols_ = (symbol :> a.n) @@ @,
                            !.n = @ + 1, !.i = @ + 1]

\* One iteration of FirstPass's loop, on line i.
FirstPassLine(a) ==
  LET line == a.asm_content_[a.i]
  IN IF line = <<>> THEN [a EXCEPT !.i = @ + 1]
     ELSE IF line[1] # "(" THEN [a EXCEPT !.n = @ + 1, !.i = @ + 1]
     ELSE LET symbol == SubSeq(line, 2, Len(line) - 1)
              b == [a EXCEPT !.labels_ = @ \cup {a.i}]
          IN IF symbol \in DOMAIN a.symbols_
             THEN Raise(b, "SyntaxError")
             ELSE [b EXCEPT !.symbols_ = (symbol :> a.n) @@ @, !.i = @ + 1]

\* ProcessA_ allocating every free symbol at the same address (no increment).
ProcessA_NoIncrement(a) ==
  LET addr == Tail(a.cur_line_)
  IN IF IsInt(addr)
     THEN [a EXCEPT !.output_ = Append(@, ParseInt(addr) % WordMod)]
     ELSE IF addr \in DOMAIN a.symbols_
     THEN [a EXCEPT !.output_ = Append(@, a.symbols_[addr])]
     ELSE [a EXCEPT !.symbols_ = (addr :> a.var_addr_) @@ @,
                    !.output_ = Append(@, a.var_addr_ % WordMod)]

ProcessA_(a) ==
  LET addr == Tail(a.cur_line_)
  IN IF IsInt(addr)
     THEN [a EXCEPT !.output_ = Append(@, ParseInt(addr) % WordMod)]
     ELSE IF addr \in DOMAIN a.symbols_
     THEN [a EXCEPT !.output_ = Append(@, a.symbols_[addr])]
     ELSE [a EXCEPT !.symbols_ = (addr :> a.var_addr_) @@ @,
                    !.output_ = Append(@, a.var_addr_ % WordMod),
                    !.var_addr_ = @ + 1]

\* The split of a C-instruction line at its first ';' and first '='.
SplitC(line) ==
  LET semi == IndexOf(line, ";")
      computation == IF semi = 0 THEN line ELSE SubSeq(line, 1, semi - 1)
      jump == IF semi = 0 THEN <<>> ELSE SubSeq(line, semi + 1, Len(line))
      eq == IndexOf(computation, "=")
  IN [dest |-> IF eq = 0 THEN <<>> ELSE SubSeq(computation, 1, eq - 1),
      comp |-> IF eq = 0 THEN computation
               ELSE SubSeq(computation, eq + 1, Len(computation)),
      jump |-> jump]

\* The word ProcessC_ builds for a parsed line, by its additions.
CWord(dest, comp, jump, abits) ==
  57344
  + (IF dest # <<>> THEN ListIndex(DestList, dest) * 8 ELSE 0)
  + c_bit_table_[comp] * 64
  + (IF comp \in abits THEN 4096 ELSE 0)
  + (IF jump # <<>> THEN ListIndex(JumpList, jump) ELSE 0)

ProcessC_With(a, abits) ==
  LET p == SplitC(a.cur_line_)
  IN IF p.dest # <<>> /\ ListIndex(DestList, p.dest) < 0 THEN Raise(a, "ValueError")
     ELSE IF p.comp \notin DOMAIN c_bit_table_ THEN Raise(a, "KeyError")
     ELSE IF p.jump # <<>> /\ ListIndex(JumpList, p.jump) < 0 THEN Raise(a, "ValueError")
     ELSE [a EXCEPT !.output_ = Append(@, CWord(p.dest, p.comp, p.jump, abits))]

\* ProcessC_ with 'D|M' missing from the a-bit set.
ProcessC_NoOrM(a) == ProcessC_With(a, a_bit_set_NoOrM)

ProcessC_(a) == ProcessC_With(a, a_bit_set_)

\* One iteration of SecondPass's loop, on line i.
SecondPassLine(a) ==
  LET b == [a EXCEPT !.cur_line_ = a.asm_content_[a.i]]
      c == IF b.cur_line_ = <<>> \/ a.i \in a.labels_ THEN b
           ELSE IF b.cur_line_[1] = "@" THEN ProcessA_(b)
           ELSE ProcessC_(b)
  IN IF c.pc = "error" THEN c ELSE [c EXCEPT !.i = @ + 1]

\* WriteOutput: each word as 16 binary digits.
WriteOutput(a) ==
  [a EXCEPT !.written = [k \in 1..Len(a.output_) |->
                           LET x == BinStr(a.output_[k])
                           IN Zeros(16 - Len(x)) \o x],
            !.pc = "done"]

\* One step of main(): a loop iteration of a pass, or WriteOutput.
AsmStep(a) ==
  CASE a.pc = "FirstPass" ->
         IF a.i > Len(a.asm_content_) THEN EndOfLoop(a, "SecondPass")
         ELSE EndOfLoop(FirstPassLine(a), "SecondPass")
    [] a.pc = "SecondPass" ->
         IF a.i > Len(a.asm_content_) THEN EndOfLoop(a, "WriteOutput")
         ELSE EndOfLoop(SecondPassLine(a), "WriteOutput")
    [] a.pc = "WriteOutput" -> WriteOutput(a)
    [] OTHER -> a

\* n steps of main(), none taken once pc is in stop.
RECURSIVE AsmSteps(_, _, _)
AsmSteps(a, n, stop) ==
  IF n <= 0 \/ a.pc \in stop THEN a
  ELSE IF n = 1 THEN AsmStep(a)
  ELSE AsmSteps(AsmSteps(a, n \div 2, stop), n - n \div 2, stop)

\* main() run to its end on a file: a step per line and pass, and WriteOutput.
RunAsm(a) == AsmSteps(a, 2 * Len(a.asm_content_) + 1, {"done", "error", "idle"})

Assemble(file_content) == RunAsm(Assembler(file_content))

(***************************************************************************)
(* The assembler as a state machine.                                       *)
(***************************************************************************)
FirstPass ==
  /\ asm.pc = "FirstPass"
  /\ asm' = AsmStep(asm)
  /\ UNCHANGED <<given, vm, cpu, jack>>

SecondPass ==
  /\ asm.pc = "SecondPass"
  /\ asm' = AsmStep(asm)
  /\ UNCHANGED <<given, vm, cpu, jack>>

DoWriteOutput ==
  /\ asm.pc = "WriteOutput"
  /\ asm' = AsmStep(asm)
  /\ UNCHANGED <<given, vm, cpu, jack>>

(***************************************************************************)
(* Inputs of the assembler.                                                *)
(***************************************************************************)
\* Raw source lines programs are drawn from: labels L and E, references to
\* them, variables x and y, a predefined symbol, literals, C-instructions
\* (one written with whitespace and a comment) and the empty line.
AsmAlphabet ==
  {<<>>,
   <<"(","L",")">>,
   <<"(","E",")">>,
   <<"@","L">>,
   <<"@","E">>,
   <<"@","x">>,
   <<"@","y">>,
   <<"@","K","B","D">>,
   <<"@","5">>,
   <<"@","3","2","7","6","8">>,
   <<" ","D"," ","="," ","M"," ","/","/"," ","c">>,
   <<"0",";","J","M","P">>}

SeqsUpTo(S, n) == UNION {[1..k -> S] : k \in 0..n}

\* dest=comp;jump, either of dest= and ;jump absent when empty.
CLine(dest, comp, jump) ==
  (IF dest = <<>> THEN <<>> ELSE dest \o <<"=">>) \o comp
  \o (IF jump = <<>> THEN <<>> ELSE <<";">> \o jump)

Program(lines) ==
  [kind |-> "program", lines |-> lines, dest |-> <<>>, comp |-> <<>>, jump |-> <<>>]

\* Programs over the alphabet; programs declaring a predefined symbol as a
\* label, before or after an instruction; lines the encoder must refuse.
AsmPrograms ==
  {Program(p) : p \in SeqsUpTo(AsmAlphabet, MaxLines)}
  \cup {Program(<<<<"@","x">>, <<"(">> \o s \o <<")">>, <<"@","y">>>>) : s \in DOMAIN PredefinedSymbols}
  \cup {Program(<<<<"(">> \o s \o <<")">>, <<"@">> \o s>>) : s \in DOMAIN PredefinedSymbols}
  \cup {Program(<<l>>) : l \in {<<"A","=","A","+","D">>, <<"X","=","D">>, <<"D",";","J","X","X">>}}

\* Every C-instruction of the language, as a one-line program.
CPrograms ==
  {[kind |-> "cinstr", lines |-> <<CLine(d, c, j)>>, dest |-> d, comp |-> c, jump |-> j] :
     d \in {<<>>} \cup Range(DestList),
     c \in DOMAIN c_bit_table_,
     j \in {<<>>} \cup Range(JumpList)}

NoTranslation == [pc |-> "idle"]

NoComputer == [pc |-> "idle"]

NoCompiler == [pc |-> "idle"]

InitAsm ==
  /\ given \in AsmPrograms \cup CPrograms
  /\ asm = Assembler(JoinLines(given.lines))
  /\ vm = NoTranslation
  /\ cpu = NoComputer
  /\ jack = NoCompiler

NextAsm == FirstPass \/ SecondPass \/ DoWriteOutput

SpecAsm == InitAsm /\ [][NextAsm]_vars

(***************************************************************************)
(* Properties of the assembler, checked under SpecAsm.                     *)
(***************************************************************************)
IsLabelLine(line) == line # <<>> /\ line[1] = "("

IsInstruction(line) == line # <<>> /\ line[1] # "("

IsAInstruction(line) == line # <<>> /\ line[1] = "@"

LabelOf(line) == SubSeq(line, 2, Len(line) - 1)

DeclaredLabels(lines) ==
  {LabelOf(lines[k]) : k \in {j \in 1..Len(lines) : IsLabelLine(lines[j])}}

\* The instructions of a program in order: what pass 2 emits a word for.
Instructions(lines) == SelectSeq(lines, IsInstruction)

\* The number of non-empty, non-label lines before the declaration of L.
RomAddress(lines, L) ==
  LET decl == CHOOSE k \in 1..Len(lines) :
                /\ IsLabelLine(lines[k]) /\ LabelOf(lines[k]) = L
                /\ \A j \in 1..(k - 1) : ~(IsLabelLine(lines[j]) /\ LabelOf(lines[j]) = L)
  IN Cardinality({j \in 1..(decl - 1) : IsInstruction(lines[j])})

\* The program without its label lines and with every @L, L a declared
\* label, replaced by the decimal ROM address of L.
Unlabelled(lines) ==
  LET ins == Instructions(lines)
  IN [k \in 1..Len(ins) |->
        IF IsAInstruction(ins[k]) /\ Tail(ins[k]) \in DeclaredLabels(lines)
        THEN <<"@">> \o Str(RomAddress(lines, Tail(ins[k])))
        ELSE ins[k]]

\* C1: a program with labels that assembles yields the same words, and the
\* same .hack text, as the program with its (L) lines deleted and every @L
\* replaced by the decimal ROM address of L (the number of non-empty,
\* non-label lines before the declaration).
C1_LabelsTransparent ==
  (given.kind = "program" /\ asm.pc = "done") =>
    LET plain == Assemble(JoinLines(Unlabelled(asm.asm_content_)))
    IN /\ plain.pc = "done"
       /\ plain.labels_ = {}
       /\ asm.output_ = plain.output_
       /\ asm.written = plain.written

\* C1 witness: a finished run whose program references L before declaring
\* it, declares two labels on consecutive lines, the last after the final
\* instruction.
C1_Witness ==
  /\ asm.pc = "done"
  /\ asm.asm_content_ = <<<<"@","L">>, <<"(","L",")">>, <<"(","E",")">>>>
  /\ asm.output_ = <<1>>

DestIndex(dest) == IF dest = <<>> THEN 0 ELSE CHOOSE k \in 0..7 : DestList[k + 1] = dest

JumpIndex(jump) == IF jump = <<>> THEN 0 ELSE CHOOSE k \in 0..7 : JumpList[k + 1] = jump

\* C2: every C-instruction dest=comp;jump assembles to the one word
\* 0xE000 | a<<12 | comp<<6 | dest<<3 | jump, with a = 1 exactly when the
\* comp mnemonic contains M, and that word is in 0xE000..0xFFFF.
C2_CInstructionWord ==
  given.kind = "cinstr" =>
    /\ asm.pc # "error"
    /\ asm.pc \in {"WriteOutput", "done"} =>
         LET a == IF "M" \in Range(given.comp) THEN 1 ELSE 0
             word == BitOr(BitOr(BitOr(BitOr(57344, a * 4096),
                                       c_bit_table_[given.comp] * 64),
                                 DestIndex(given.dest) * 8),
                           JumpIndex(given.jump))
         IN /\ asm.output_ = <<word>>
            /\ word \in 57344..65535

\* C2 witness: AMD=D|M;JMP has been encoded, as 1111 0101 0111 1111.
C2_Witness ==
  /\ given.kind = "cinstr"
  /\ asm.pc = "done"
  /\ given.lines = <<<<"A","M","D","=","D","|","M",";","J","M","P">>>>
  /\ asm.output_ = <<62847>>

\* An @ reference to a symbol that is neither numeric, predefined nor
\* declared as a label anywhere in the program.
IsVariableRef(lines, line) ==
  /\ IsAInstruction(line)
  /\ ~IsInt(Tail(line))
  /\ Tail(line) \notin DOMAIN PredefinedSymbols
  /\ Tail(line) \notin DeclaredLabels(lines)

\* The variables referenced by the first k instructions.
VariablesIn(lines, k) ==
  LET ins == Instructions(lines)
  IN {Tail(ins[j]) : j \in {m \in 1..k : IsVariableRef(lines, ins[m])}}

\* C3: during pass 2 the i-th distinct variable (from 0, by first
\* reference) is emitted as 16+i at every reference; labels, even ones
\* declared after their first use, are emitted as their ROM address and
\* never take a variable address.
C3_VariableAllocation ==
  (given.kind = "program" /\ asm.pc \in {"SecondPass", "WriteOutput", "done"}) =>
    LET lines == asm.asm_content_
        ins == Instructions(lines)
        emitted == Len(asm.output_)
    IN /\ emitted <= Len(ins)
       /\ asm.var_addr_ = 16 + Cardinality(VariablesIn(lines, emitted))
       /\ \A k \in 1..emitted :
            /\ IsVariableRef(lines, ins[k]) =>
                 LET first == CHOOSE f \in 1..k :
                                ins[f] = ins[k] /\ \A j \in 1..(f - 1) : ins[j] # ins[k]
                 IN asm.output_[k] = 16 + Cardinality(VariablesIn(lines, first - 1))
            /\ (IsAInstruction(ins[k]) /\ Tail(ins[k]) \in DeclaredLabels(lines)) =>
                 /\ asm.output_[k] = RomAddress(lines, Tail(ins[k]))
                 /\ asm.symbols_[Tail(ins[k])] = RomAddress(lines, Tail(ins[k]))
       /\ \A j, k \in 1..emitted :
            (IsVariableRef(lines, ins[j]) /\ IsVariableRef(lines, ins[k])) =>
              (asm.output_[j] = asm.output_[k] <=> ins[j] = ins[k])

\* C3 witness: @x @y @x has been emitted as 16, 17, 16.
C3_Witness ==
  /\ asm.pc = "done"
  /\ asm.asm_content_ = <<<<"@","x">>, <<"@","y">>, <<"@","x">>>>
  /\ asm.output_ = <<16, 17, 16>>

\* C4 (as claimed): every word emitted for an A-instruction has its most
\* significant bit 0, i.e. is in 0..32767, and is written with a leading 0.
C4_AInstructionMsbZero ==
  given.kind = "program" =>
    LET ins == Instructions(asm.asm_content_)
    IN /\ \A k \in 1..Len(asm.output_) :
            IsAInstruction(ins[k]) => asm.output_[k] \in 0..32767
       /\ \A k \in 1..Len(asm.written) :
            IsAInstruction(ins[k]) => asm.written[k][1] = "0"

HasPredefinedLabel(lines) == DeclaredLabels(lines) \cap DOMAIN PredefinedSymbols # {}

FirstPredefinedLabel(lines) ==
  CHOOSE k \in 1..Len(lines) :
    /\ IsLabelLine(lines[k]) /\ LabelOf(lines[k]) \in DOMAIN PredefinedSymbols
    /\ \A j \in 1..(k - 1) :
         ~(IsLabelLine(lines[j]) /\ LabelOf(lines[j]) \in DOMAIN PredefinedSymbols)

\* C5: a program declaring a predefined symbol as a label never gets past
\* FirstPass (the pass stops with an error at that line at the latest) and
\* emits no word; and every run that completes ends with each predefined
\* symbol bound to the address it was seeded with.
C5_PredefinedProtected ==
  /\ (given.kind = "program" /\ HasPredefinedLabel(asm.asm_content_)) =>
       /\ asm.pc \in {"FirstPass", "error"}
       /\ asm.pc = "FirstPass" => asm.i <= FirstPredefinedLabel(asm.asm_content_)
       /\ asm.pc = "error" => asm.err = "SyntaxError"
       /\ asm.output_ = <<>>
       /\ asm.written = <<>>
  /\ asm.pc = "done" =>
       \A s \in DOMAIN PredefinedSymbols :
         s \in DOMAIN asm.symbols_ /\ asm.symbols_[s] = PredefinedSymbols[s]

\* C5 witness: FirstPass has refused (KBD) after an instruction.
C5_Witness ==
  /\ asm.pc = "error"
  /\ asm.err = "SyntaxError"
  /\ asm.asm_content_ = <<<<"@","x">>, <<"(","K","B","D",")">>, <<"@","y">>>>
  /\ asm.output_ = <<>>

(***************************************************************************)
(* The VM translator: projects/08/VMTranslator.py                          *)
(* A VM command (one entry of vm_tokens) is a record: op and seg are the   *)
(* tokens compared against keywords, name the label or function name that  *)
(* goes into the output text, n the value of int(tokens[2]).               *)
(***************************************************************************)
SEGMENT_POINTERS ==
  ("local" :> <<"L","C","L">>) @@ ("argument" :> <<"A","R","G">>) @@ ("this" :> <<"T","H","I","S">>) @@ ("that" :> <<"T","H","A","T">>)

STACK_DATA_REGISTER == <<"R","1","5">>

LCL_TMP_REGISTER == <<"R","1","3">>

RETURN_ADDR_TMP_REGISTER == <<"R","1","4">>

\* '@{}'.format(x)
At(x) == <<"@">> \o x

\* '({})'.format(x)
Paren(x) == <<"(">> \o x \o <<")">>

\* '{}.{}'.format(a, b)
Dot(a, b) == a \o <<".">> \o b

\* fname[:-3]: the file name without its '.vm'.
FileLabel(input_path) == SubSeq(input_path, 1, Len(input_path) - 3)

\* path.endswith(suffix)
EndsWith(path, suffix) ==
  /\ Len(path) >= Len(suffix)
  /\ SubSeq(path, Len(path) - Len(suffix) + 1, Len(path)) = suffix

PushSegments == {"constant", "temp", "static", "pointer"} \cup DOMAIN SEGMENT_POINTERS

PopSegments == {"temp", "static", "pointer"} \cup DOMAIN SEGMENT_POINTERS

LoadValueToD(segment, offset, file_label) ==
  IF segment = "constant" THEN <<At(Str(offset)), <<"D","=","A">>>>
  ELSE IF segment = "temp" THEN <<At(Str(5 + offset)), <<"D","=","M">>>>
  ELSE IF segment \in DOMAIN SEGMENT_POINTERS
  THEN <<At(SEGMENT_POINTERS[segment]), <<"D","=","M">>, At(Str(offset)), <<"A","=","A","+","D">>, <<"D","=","M">>>>
  ELSE IF segment = "static" THEN <<At(Dot(file_label, Str(offset))), <<"D","=","M">>>>
  ELSE <<At(IF offset # 0 THEN <<"T","H","A","T">> ELSE <<"T","H","I","S">>), <<"D","=","M">>>>

PushDRegisterToStack == <<<<"@","S","P">>, <<"A","=","M">>, <<"M","=","D">>, <<"@","S","P">>, <<"M","=","M","+","1">>>>

PushOp(segment, offset, file_label) ==
  LoadValueToD(segment, offset, file_label) \o PushDRegisterToStack

LoadAddressIntoStackDataRegister(segment, offset, file_label) ==
  (IF segment = "temp" THEN <<At(Str(5 + offset)), <<"D","=","A">>>>
   ELSE IF segment \in DOMAIN SEGMENT_POINTERS
   THEN <<At(SEGMENT_POINTERS[segment]), <<"D","=","M">>, At(Str(offset)), <<"D","=","D","+","A">>>>
   ELSE IF segment = "static" THEN <<At(Dot(file_label, Str(offset))), <<"D","=","A">>>>
   ELSE <<At(IF offset # 0 THEN <<"T","H","A","T">> ELSE <<"T","H","I","S">>), <<"D","=","A">>>>)
  \o <<At(STACK_DATA_REGISTER), <<"M","=","D">>>>

PopStackToDRegister == <<<<"@","S","P">>, <<"A","M","=","M","-","1">>, <<"D","=","M">>>>

\* PopOp storing at the base of the segment, whatever the offset.
PopOpIgnoresOffset(segment, offset, file_label) ==
  LoadAddressIntoStackDataRegister(segment, 0, file_label)
  \o PopStackToDRegister
  \o <<At(STACK_DATA_REGISTER), <<"A","=","M">>, <<"M","=","D">>>>

PopOp(segment, offset, file_label) ==
  LoadAddressIntoStackDataRegister(segment, offset, file_label)
  \o PopStackToDRegister
  \o <<At(STACK_DATA_REGISTER), <<"A","=","M">>, <<"M","=","D">>>>

SetARegisterToTopOfStack == <<<<"@","S","P">>, <<"A","=","M","-","1">>>>

\* BinaryOp with the operands of sub the other way round.
BinaryOpSwapped(op) ==
  PopStackToDRegister \o SetARegisterToTopOfStack
  \o <<IF op = "add" THEN <<"M","=","M","+","D">>
       ELSE IF op = "sub" THEN <<"M","=","D","-","M">>
       ELSE IF op = "and" THEN <<"M","=","M","&","D">>
       ELSE <<"M","=","M","|","D">>>>

BinaryOp(op) ==
  PopStackToDRegister \o SetARegisterToTopOfStack
  \o <<IF op = "add" THEN <<"M","=","M","+","D">>
       ELSE IF op = "sub" THEN <<"M","=","M","-","D">>
       ELSE IF op = "and" THEN <<"M","=","M","&","D">>
       ELSE <<"M","=","M","|","D">>>>

UnaryOp(op) == SetARegisterToTopOfStack \o <<IF op = "neg" THEN <<"M","=","-","M">> ELSE <<"M","=","!","M">>>>

ComparisonOp(op, index, file_label) ==
  LET jump_cmd == IF op = "eq" THEN <<"J","E","Q">> ELSE IF op = "lt" THEN <<"J","L","T">> ELSE <<"J","G","T">>
      insert_true == Dot(Dot(file_label, <<"I","n","s","e","r","t","T","r","u","e">>), Str(index))
      end == Dot(Dot(file_label, <<"E","n","d">>), Str(index))
  IN PopStackToDRegister \o SetARegisterToTopOfStack
     \o <<<<"D","=","M","-","D">>, At(insert_true), <<"D",";">> \o jump_cmd>>
     \o SetARegisterToTopOfStack
     \o <<<<"M","=","0">>, At(end), <<"0",";","J","M","P">>, Paren(insert_true)>>
     \o SetARegisterToTopOfStack
     \o <<<<"M","=","-","1">>, Paren(end)>>

LabelOp(file_label, label) == <<Paren(Dot(file_label, label))>>

GotoOp(file_label, label) == <<At(Dot(file_label, label)), <<"0",";","J","M","P">>>>

IfGotoOp(file_label, label) ==
  PopStackToDRegister \o <<At(Dot(file_label, label)), <<"D",";","J","N","E">>>>

RECURSIVE Repeat(_, _)
Repeat(code, k) == IF k <= 0 THEN <<>> ELSE code \o Repeat(code, k - 1)

\* FunctionOp that pushes one zero more than the function has locals.
FunctionOpOneMore(fn_name, n_vars, file_label) ==
  <<Paren(fn_name)>> \o Repeat(PushOp("constant", 0, file_label), n_vars + 1)

FunctionOp(fn_name, n_vars, file_label) ==
  <<Paren(fn_name)>> \o Repeat(PushOp("constant", 0, file_label), n_vars)

CallOp(fn_name, index, n_args) ==
  LET return_addr == Dot(Dot(fn_name, <<"r","e","t">>), Str(index))
  IN <<At(return_addr), <<"D","=","A">>>> \o PushDRegisterToStack
     \o <<<<"@","L","C","L">>, <<"D","=","M">>>> \o PushDRegisterToStack
     \o <<<<"@","A","R","G">>, <<"D","=","M">>>> \o PushDRegisterToStack
     \o <<<<"@","T","H","I","S">>, <<"D","=","M">>>> \o PushDRegisterToStack
     \o <<<<"@","T","H","A","T">>, <<"D","=","M">>>> \o PushDRegisterToStack
     \o <<<<"@","S","P">>, <<"D","=","M">>, <<"@","5">>, <<"D","=","D","-","A">>, At(Str(n_args)), <<"D","=","D","-","A">>, <<"@","A","R","G">>, <<"M","=","D">>,
          <<"@","S","P">>, <<"D","=","M">>, <<"@","L","C","L">>, <<"M","=","D">>,
          At(fn_name), <<"0",";","J","M","P">>,
          Paren(return_addr)>>

\* The restore of one segment pointer from *(R13 - k).
RestorePointer(k, addr) ==
  <<At(LCL_TMP_REGISTER), <<"D","=","M">>, At(Str(k)), <<"A","=","D","-","A">>, <<"D","=","M">>, At(addr), <<"M","=","D">>>>

\* The save of the return address, *(LCL - 5), into R14.
SaveReturnAddress ==
  <<<<"@","L","C","L">>, <<"D","=","M">>, <<"@","5">>, <<"A","=","D","-","A">>, <<"D","=","M">>, At(RETURN_ADDR_TMP_REGISTER), <<"M","=","D">>>>

\* ReturnOp reading the return address only after *ARG has been written.
ReturnOpLateReturnAddress ==
  PopStackToDRegister \o <<<<"@","A","R","G">>, <<"A","=","M">>, <<"M","=","D">>>>
  \o SaveReturnAddress
  \o <<<<"@","A","R","G">>, <<"D","=","M","+","1">>, <<"@","S","P">>, <<"M","=","D">>, <<"@","L","C","L">>, <<"D","=","M">>, At(LCL_TMP_REGISTER), <<"M","=","D">>>>
  \o RestorePointer(1, <<"T","H","A","T">>) \o RestorePointer(2, <<"T","H","I","S">>)
  \o RestorePointer(3, <<"A","R","G">>) \o RestorePointer(4, <<"L","C","L">>)
  \o <<At(RETURN_ADDR_TMP_REGISTER), <<"A","=","M">>, <<"0",";","J","M","P">>>>

ReturnOp ==
  SaveReturnAddress
  \o PopStackToDRegister \o <<<<"@","A","R","G">>, <<"A","=","M">>, <<"M","=","D">>>>
  \o <<<<"@","A","R","G">>, <<"D","=","M","+","1">>, <<"@","S","P">>, <<"M","=","D">>, <<"@","L","C","L">>, <<"D","=","M">>, At(LCL_TMP_REGISTER), <<"M","=","D">>>>
  \o RestorePointer(1, <<"T","H","A","T">>) \o RestorePointer(2, <<"T","H","I","S">>)
  \o RestorePointer(3, <<"A","R","G">>) \o RestorePointer(4, <<"L","C","L">>)
  \o <<At(RETURN_ADDR_TMP_REGISTER), <<"A","=","M">>, <<"0",";","J","M","P">>>>

BootPointer(ptr_name, value) ==
  (IF value >= 0 THEN <<At(Str(value)), <<"D","=","A">>>> ELSE <<At(Str(0 - value)), <<"D","=","-","A">>>>)
  \o <<At(ptr_name), <<"M","=","D">>>>

BootCode ==
  BootPointer(<<"S","P">>, 256) \o BootPointer(<<"L","C","L">>, -1) \o BootPointer(<<"A","R","G">>, -2)
  \o BootPointer(<<"T","H","I","S">>, -3) \o BootPointer(<<"T","H","A","T">>, -4)
  \o CallOp(<<"S","y","s",".","i","n","i","t">>, 0, 0)

(***************************************************************************)
(* The translation loops.  vm.files holds, per input path, the tokens      *)
(* PreprocessInput returns for it; f and t are the positions of the loops  *)
(* of TranslateVMFilesToASM and TranslateVMFiletoASM (from 1).             *)
(***************************************************************************)
Cmd(op, seg, name, n) == [op |-> op, seg |-> seg, name |-> name, n |-> n]

Translation(files, result) ==
  [pc |-> "translate", files |-> files, f |-> 1, t |-> 1,
   comparison_counter |-> 0, call_counts |-> <<>>, result |-> result,
   written |-> <<>>, err |-> ""]

SysPaths(paths) == {k \in 1..Len(paths) : EndsWith(paths[k].path, <<"S","y","s",".","v","m">>)}

\* TranslateVMFilesToASM up to its loop: Sys.vm first, then the boot code.
TranslateVMFilesToASM(files) ==
  LET idx == CHOOSE k \in SysPaths(files) : \A j \in SysPaths(files) : k <= j
      swapped == [files EXCEPT ![1] = files[idx], ![idx] = files[1]]
  IN Translation(swapped, BootCode)

\* main(): the paths of ParseIOPathsFromArguments, then one of the two
\* translations.  A directory without Sys.vm is refused.
Main(g) ==
  IF g.mode = "dir" /\ ~\E k \in 1..Len(g.files) : g.files[k].path = <<"S","y","s",".","v","m">>
  THEN [Translation(g.files, <<>>) EXCEPT !.pc = "error", !.err = "InvalidInputError"]
  ELSE IF Len(g.files) = 1 THEN Translation(g.files, <<>>)
  ELSE TranslateVMFilesToASM(g.files)

\* try: call_counts[fn_name] += 1; except KeyError: call_counts[fn_name] = 0
CountCall(call_counts, fn_name) ==
  IF fn_name \in DOMAIN call_counts
  THEN [call_counts EXCEPT ![fn_name] = @ + 1]
  ELSE (fn_name :> 0) @@ call_counts

\* One iteration of TranslateVMFiletoASM's loop, on command t of file f.
TranslateCommand(v) ==
  LET tokens == v.files[v.f].vm_tokens[v.t]
      file_label == FileLabel(v.files[v.f].path)
      op == tokens.op
      emit(code) == [v EXCEPT !.result = @ \o code, !.t = @ + 1]
      fail == [v EXCEPT !.pc = "error", !.err = "SyntaxError"]
  IN IF op = "push"
     THEN IF tokens.seg \in PushSegments
          THEN emit(PushOp(tokens.seg, tokens.n, file_label)) ELSE fail
     ELSE IF op = "pop"
     THEN IF tokens.seg \in PopSegments
          THEN emit(PopOp(tokens.seg, tokens.n, file_label)) ELSE fail
     ELSE IF op \in {"add", "sub", "and", "or"} THEN emit(BinaryOp(op))
     ELSE IF op \in {"neg", "not"} THEN emit(UnaryOp(op))
     ELSE IF op \in {"eq", "lt", "gt"}
     THEN [emit(ComparisonOp(op, v.comparison_counter, file_label))
             EXCEPT !.comparison_counter = @ + 1]
     ELSE IF op = "label" THEN emit(LabelOp(file_label, tokens.name))
     ELSE IF op = "goto" THEN emit(GotoOp(file_label, tokens.name))
     ELSE IF op = "if-goto" THEN emit(IfGotoOp(file_label, tokens.name))
     ELSE IF op = "function" THEN emit(FunctionOp(tokens.name, tokens.n, file_label))
     ELSE IF op = "call"
     THEN LET counts == CountCall(v.call_counts, tokens.name)
          IN [emit(CallOp(tokens.name, counts[tokens.name], tokens.n))
                EXCEPT !.call_counts = counts]
     ELSE IF op = "return" THEN emit(ReturnOp)
     ELSE fail

\* One step of the translation: a command, the move to the next file
\* (whose comparison counter starts at 0 again), or the end of the loops.
TranslateStep(v) ==
  IF v.t <= Len(v.files[v.f].vm_tokens) THEN TranslateCommand(v)
  ELSE IF v.f < Len(v.files)
  THEN [v EXCEPT !.f = @ + 1, !.t = 1, !.comparison_counter = 0]
  ELSE [v EXCEPT !.pc = "WriteOutput"]

\* WriteOutput: asm_tokens.append(''), then the lines joined by '\n'.
WriteAsm(v) ==
  [v EXCEPT !.written = JoinLines(Append(v.result, <<>>)), !.pc = "done"]

VmStep(v) ==
  CASE v.pc = "translate" -> TranslateStep(v)
    [] v.pc = "WriteOutput" -> WriteAsm(v)
    [] OTHER -> v

(***************************************************************************)
(* The translator as a state machine.                                      *)
(***************************************************************************)
Translate ==
  /\ vm.pc = "translate"
  /\ vm' = VmStep(vm)
  /\ UNCHANGED <<given, asm, cpu, jack>>

WriteAsmFile ==
  /\ vm.pc = "WriteOutput"
  /\ vm' = VmStep(vm)
  /\ UNCHANGED <<given, asm, cpu, jack>>

\* The assembler is run on the .asm file the translator wrote.
AssembleTranslation ==
  /\ vm.pc = "done"
  /\ asm.pc = "idle"
  /\ asm' = Assembler(vm.written)
  /\ UNCHANGED <<given, vm, cpu, jack>>

(***************************************************************************)
(* The Hack computer that runs translated code.  Symbols are resolved as   *)
(* the assembler resolves them (FirstPass for labels, ProcessA_ for        *)
(* predefined symbols and variables); a C-instruction is executed from its *)
(* dest, comp and jump fields.  The ALU evaluates a comp mnemonic by its   *)
(* operands and operator, so the commuted forms the translator writes      *)
(* (A+D, M+D, M&D, M|D) compute what D+A, D+M, D&M, D|M compute.           *)
(***************************************************************************)
RomA(value) == [isA |-> TRUE, value |-> value, dest |-> <<>>, comp |-> <<>>, jump |-> <<>>]

RomC(line) ==
  [isA |-> FALSE, value |-> 0, dest |-> SplitC(line).dest,
   comp |-> SplitC(line).comp, jump |-> SplitC(line).jump]

RunFirstPass(a) ==
  AsmSteps(a, Len(a.asm_content_), {"SecondPass", "done", "error", "idle"})

\* Line ld.a.i loaded into the ROM image ld.rom: an A-instruction with the
\* value ProcessA_ resolves, a C-instruction with its fields.
LoadLine(ld) ==
  LET a == ld.a
      line == a.asm_content_[a.i]
  IN IF line = <<>> \/ a.i \in a.labels_
     THEN [ld EXCEPT !.a.i = @ + 1]
     ELSE IF line[1] = "@"
     THEN LET b == ProcessA_([a EXCEPT !.cur_line_ = line])
          IN [a |-> [b EXCEPT !.i = @ + 1],
              rom |-> Append(ld.rom, RomA(b.output_[Len(b.output_)]))]
     ELSE [ld EXCEPT !.a.i = @ + 1, !.rom = Append(@, RomC(line))]

\* The next n lines loaded, as far as there are lines.
RECURSIVE LoadLines(_, _)
LoadLines(ld, n) ==
  IF n <= 0 \/ ld.a.i > Len(ld.a.asm_content_) THEN ld
  ELSE IF n = 1 THEN LoadLine(ld)
  ELSE LoadLines(LoadLines(ld, n \div 2), n - n \div 2)

Computer(file_content, ram) ==
  LET a == RunFirstPass(Assembler(file_content))
      image == LoadLines([a |-> a, rom |-> <<>>], Len(a.asm_content_))
  IN IF a.pc = "error" THEN [pc |-> "error"]
     ELSE [pc |-> "run", rom |-> image.rom, symbols |-> image.a.symbols_,
           ip |-> 0, A |-> 0, D |-> 0, ram |-> ram]

\* RAM[a]; a cell never written holds 0.
Rd(ram, a) == IF a \in DOMAIN ram THEN ram[a] ELSE 0

Signed(v) == IF v >= 32768 THEN v - WordMod ELSE v

Operand(ch, A, D, M) ==
  CASE ch = "0" -> 0
    [] ch = "1" -> 1
    [] ch = "A" -> A
    [] ch = "D" -> D
    [] ch = "M" -> M

ALU(comp, A, D, M) ==
  IF Len(comp) = 1 THEN Operand(comp[1], A, D, M)
  ELSE IF Len(comp) = 2
  THEN LET x == Operand(comp[2], A, D, M)
       IN IF comp[1] = "-" THEN (WordMod - x) % WordMod ELSE WordMod - 1 - x
  ELSE LET x == Operand(comp[1], A, D, M)
           y == Operand(comp[3], A, D, M)
       IN CASE comp[2] = "+" -> (x + y) % WordMod
            [] comp[2] = "-" -> (x - y + WordMod) % WordMod
            [] comp[2] = "&" -> BitAnd(x, y)
            [] comp[2] = "|" -> BitOr(x, y)

JumpTaken(jump, v) ==
  LET s == Signed(v)
  IN CASE jump = <<"J","G","T">> -> s > 0
       [] jump = <<"J","E","Q">> -> s = 0
       [] jump = <<"J","G","E">> -> s >= 0
       [] jump = <<"J","L","T">> -> s < 0
       [] jump = <<"J","N","E">> -> s # 0
       [] jump = <<"J","L","E">> -> s <= 0
       [] jump = <<"J","M","P">> -> TRUE
       [] OTHER -> FALSE

\* One instruction; the computer halts when it runs off the end of the ROM.
CpuStep(c) ==
  IF c.ip >= Len(c.rom) THEN [c EXCEPT !.pc = "halt"]
  ELSE LET ins == c.rom[c.ip + 1]
       IN IF ins.isA THEN [c EXCEPT !.A = ins.value, !.ip = @ + 1]
          ELSE LET v == ALU(ins.comp, c.A, c.D, Rd(c.ram, c.A))
               IN [c EXCEPT
                     !.A = IF "A" \in Range(ins.dest) THEN v ELSE @,
                     !.D = IF "D" \in Range(ins.dest) THEN v ELSE @,
                     !.ram = IF "M" \in Range(ins.dest) THEN (c.A :> v) @@ @ ELSE @,
                     !.ip = IF JumpTaken(ins.jump, v) THEN c.A ELSE @ + 1]

LoadProgram ==
  /\ vm.pc = "done"
  /\ cpu.pc = "idle"
  /\ cpu' = Computer(vm.written, given.ram)
  /\ UNCHANGED <<given, asm, vm, jack>>

Execute ==
  /\ cpu.pc = "run"
  /\ cpu' = CpuStep(cpu)
  /\ UNCHANGED <<given, asm, vm, jack>>

(***************************************************************************)
(* Inputs of the translator.                                               *)
(***************************************************************************)
\* Largest segment offset, argument count and local count of a command.
MaxIndex == 2

\* Longest VM file (in commands) of the label programs.
MaxCmds == 4

File(path, vm_tokens) == [path |-> path, vm_tokens |-> vm_tokens]

\* Every supported VM command, with small operands.
Commands ==
  {Cmd("push", s, <<>>, n) : s \in PushSegments \ {"pointer"}, n \in 0..MaxIndex}
  \cup {Cmd("pop", s, <<>>, n) : s \in PopSegments \ {"pointer"}, n \in 0..MaxIndex}
  \cup {Cmd(o, "pointer", <<>>, n) : o \in {"push", "pop"}, n \in 0..1}
  \cup {Cmd(o, "temp", <<>>, 7) : o \in {"push", "pop"}}
  \cup {Cmd(o, "", <<>>, 0) :
          o \in {"add", "sub", "and", "or", "neg", "not", "eq", "lt", "gt", "return"}}
  \cup {Cmd(o, "", <<"L">>, 0) : o \in {"label", "goto", "if-goto"}}
  \cup {Cmd(o, "", <<"F","o","o",".","f">>, n) : o \in {"function", "call"}, n \in 0..MaxIndex}

\* One command translated alone, and one command in a directory next to
\* Sys.vm (which brings the bootstrap), then assembled.
PipeInputs ==
  {[kind |-> "pipe", mode |-> "file", files |-> <<File(<<"F","o","o",".","v","m">>, <<c>>)>>] :
     c \in Commands}
  \cup {[kind |-> "pipe", mode |-> "dir",
         files |-> <<File(<<"F","o","o",".","v","m">>, <<c>>),
                     File(<<"S","y","s",".","v","m">>, <<Cmd("function", "", <<"S","y","s",".","i","n","i","t">>, 0)>>)>>] :
          c \in Commands}

InitPipe ==
  /\ given \in PipeInputs
  /\ vm = Main(given)
  /\ asm = NoAssembler
  /\ cpu = NoComputer
  /\ jack = NoCompiler

NextPipe ==
  Translate \/ WriteAsmFile \/ AssembleTranslation
  \/ FirstPass \/ SecondPass \/ DoWriteOutput

SpecPipe == InitPipe /\ [][NextPipe]_vars

\* VM files with functions, user labels, compares and calls.  A VM program
\* is well formed when no function is declared twice and no label is
\* declared twice within one function.
LabelAlphabet ==
  {Cmd("function", "", <<"F","o","o",".","a">>, 0), Cmd("function", "", <<"F","o","o",".","b">>, 0),
   Cmd("label", "", <<"L">>, 0), Cmd("label", "", <<"K">>, 0),
   Cmd("eq", "", <<>>, 0), Cmd("call", "", <<"F","o","o",".","a">>, 0), Cmd("goto", "", <<"L">>, 0)}

SysAlphabet ==
  {Cmd("eq", "", <<>>, 0), Cmd("label", "", <<"L">>, 0),
   Cmd("call", "", <<"S","y","s",".","i","n","i","t">>, 0), Cmd("call", "", <<"F","o","o",".","a">>, 0)}

\* The position of the function command that opens the function holding
\* command k (0 before the first function of the file).
FunctionOf(tokens, k) ==
  LET opens == {j \in 1..k : tokens[j].op = "function"}
  IN IF opens = {} THEN 0 ELSE CHOOSE j \in opens : \A m \in opens : m <= j

WellFormedFile(tokens) ==
  \A j, k \in 1..Len(tokens) :
    j < k =>
      /\ ~(tokens[j].op = "function" /\ tokens[k].op = "function"
           /\ tokens[j].name = tokens[k].name)
      /\ ~(tokens[j].op = "label" /\ tokens[k].op = "label"
           /\ tokens[j].name = tokens[k].name
           /\ FunctionOf(tokens, j) = FunctionOf(tokens, k))

LabelFiles == {p \in SeqsUpTo(LabelAlphabet, MaxCmds) : WellFormedFile(p)}

SysFiles ==
  {<<Cmd("function", "", <<"S","y","s",".","i","n","i","t">>, 0)>> \o q : q \in SeqsUpTo(SysAlphabet, 1)}

LabelInputs ==
  {[kind |-> "labels", mode |-> "file", files |-> <<File(<<"F","o","o",".","v","m">>, p)>>] :
     p \in LabelFiles}
  \cup {[kind |-> "labels", mode |-> "dir",
         files |-> <<File(<<"F","o","o",".","v","m">>, p), File(<<"S","y","s",".","v","m">>, q)>>] :
          p \in {r \in LabelFiles : Len(r) <= MaxCmds - 2}, q \in SysFiles}
  \cup {[kind |-> "labels", mode |-> "dir",
         files |-> <<File(<<"S","y","s",".","v","m">>, q), File(<<"F","o","o",".","v","m">>, p)>>] :
          p \in {r \in LabelFiles : Len(r) <= MaxCmds - 3}, q \in SysFiles}
  \cup {[kind |-> "labels", mode |-> "dir", files |-> <<File(<<"F","o","o",".","v","m">>, p)>>] :
          p \in {r \in LabelFiles : Len(r) <= 1}}
  \cup {[kind |-> "labels", mode |-> "dir", files |-> <<File(<<"S","y","s",".","v","m">>, q)>>] :
          q \in SysFiles}

InitTranslate ==
  /\ given \in LabelInputs
  /\ vm = Main(given)
  /\ asm = NoAssembler
  /\ cpu = NoComputer
  /\ jack = NoCompiler

NextTranslate == Translate \/ WriteAsmFile

SpecTranslate == InitTranslate /\ [][NextTranslate]_vars

\* Programs that are run: a RAM image with the stack pointer, the segment
\* pointers and the cells the command reads, then one or two commands.
Pointers(layout) ==
  IF layout = 1
  THEN (1 :> 300) @@ (2 :> 400) @@ (3 :> 3000) @@ (4 :> 3010)
  ELSE (1 :> 1000) @@ (2 :> 900) @@ (3 :> 2048) @@ (4 :> 16384)

\* Every cell a segment command can address holds its own address plus 1.
SegmentCells(layout) ==
  LET cells == {Pointers(layout)[p] + n : p \in 1..4, n \in 0..MaxIndex}
               \cup 5..12 \cup {16 + n : n \in 0..MaxIndex}
  IN [a \in cells |-> a + 1]

CompareValues == {0, 1, 2, 32767, 32768, 65535}

CompareInputs ==
  {[kind |-> "compare", mode |-> "file", op |-> o, x |-> x, y |-> y,
    files |-> <<File(<<"F","o","o",".","v","m">>, <<Cmd(o, "", <<>>, 0)>>)>>,
    ram |-> (0 :> 258) @@ (256 :> x) @@ (257 :> y)] :
     o \in {"eq", "lt", "gt"}, x \in CompareValues, y \in CompareValues}

SegmentRam(layout, top) ==
  (0 :> 258) @@ (256 :> 11) @@ (257 :> top) @@ Pointers(layout) @@ SegmentCells(layout)

SegmentOperands ==
  {<<s, n>> : s \in PopSegments \ {"pointer"}, n \in 0..MaxIndex}
  \cup {<<"pointer", 0>>, <<"pointer", 1>>, <<"temp", 7>>}

SegmentInputs ==
  {[kind |-> "segment", what |-> "push", mode |-> "file", seg |-> sn[1], n |-> sn[2],
    v |-> top,
    files |-> <<File(<<"F","o","o",".","v","m">>, <<Cmd("push", sn[1], <<>>, sn[2])>>)>>,
    ram |-> SegmentRam(layout, top)] :
     sn \in SegmentOperands \cup {<<"constant", n>> : n \in {0, 7, 32767}},
     layout \in 1..2, top \in {7}}
  \cup
  {[kind |-> "segment", what |-> "pop", mode |-> "file", seg |-> sn[1], n |-> sn[2],
    v |-> top,
    files |-> <<File(<<"F","o","o",".","v","m">>, <<Cmd("pop", sn[1], <<>>, sn[2])>>)>>,
    ram |-> SegmentRam(layout, top)] :
     sn \in SegmentOperands, layout \in 1..2, top \in {7, 65535}}
  \cup
  {[kind |-> "segment", what |-> "pushpop", mode |-> "file", seg |-> sn[1], n |-> sn[2],
    v |-> v,
    files |-> <<File(<<"F","o","o",".","v","m">>, <<Cmd("push", "constant", <<>>, v),
                                   Cmd("pop", sn[1], <<>>, sn[2])>>)>>,
    ram |-> SegmentRam(layout, 7)] :
     sn \in SegmentOperands, layout \in 1..2, v \in {9, 32767}}

\* A caller that has pushed k arguments calls Foo.f and then idles at END;
\* Foo.f has nl locals, pushes rv and returns.
CallInputs ==
  {[kind |-> "call", mode |-> "file", k |-> k, nl |-> nl, rv |-> rv,
    files |-> <<File(<<"F","o","o",".","v","m">>,
                     <<Cmd("call", "", <<"F","o","o",".","f">>, k),
                       Cmd("label", "", <<"E","N","D">>, 0),
                       Cmd("goto", "", <<"E","N","D">>, 0),
                       Cmd("function", "", <<"F","o","o",".","f">>, nl),
                       Cmd("push", "constant", <<>>, rv),
                       Cmd("return", "", <<>>, 0)>>)>>,
    ram |-> (0 :> 262) @@ Pointers(layout) @@ [a \in 256..261 |-> a + 1]] :
     k \in 0..MaxIndex, nl \in 0..MaxIndex, rv \in {7, 9}, layout \in 1..2}

\* The program of CallInputs on a RAM whose cells above the stack hold
\* what earlier code left there, none of them 0.
FunctionInputs ==
  {[kind |-> "function", mode |-> "file", k |-> k, nl |-> nl, rv |-> 7,
    files |-> <<File(<<"F","o","o",".","v","m">>,
                     <<Cmd("call", "", <<"F","o","o",".","f">>, k),
                       Cmd("label", "", <<"E","N","D">>, 0),
                       Cmd("goto", "", <<"E","N","D">>, 0),
                       Cmd("function", "", <<"F","o","o",".","f">>, nl),
                       Cmd("push", "constant", <<>>, 7),
                       Cmd("return", "", <<>>, 0)>>)>>,
    ram |-> (0 :> 262) @@ Pointers(layout) @@ [a \in 256..280 |-> a + 1]] :
     k \in 0..1, nl \in 0..MaxIndex + 1, layout \in 1..2}

\* One arithmetic or logical command on a stack that holds 11, x and y.
ArithInputs ==
  {[kind |-> "arith", mode |-> "file", op |-> o, x |-> x, y |-> y,
    files |-> <<File(<<"F","o","o",".","v","m">>, <<Cmd(o, "", <<>>, 0)>>)>>,
    ram |-> (0 :> 259) @@ (256 :> 11) @@ (257 :> x) @@ (258 :> y) @@ Pointers(1)] :
     o \in {"add", "sub", "and", "or", "neg", "not"},
     x \in CompareValues, y \in CompareValues}

InitRun ==
  /\ given \in CompareInputs \cup SegmentInputs \cup CallInputs \cup ArithInputs \cup FunctionInputs
  /\ vm = Main(given)
  /\ asm = NoAssembler
  /\ cpu = NoComputer
  /\ jack = NoCompiler

NextRun == Translate \/ WriteAsmFile \/ LoadProgram \/ Execute

SpecRun == InitRun /\ [][NextRun]_vars

(***************************************************************************)
(* Properties of the translator and of the code it emits.                  *)
(***************************************************************************)
IsCInstruction(line) == IsInstruction(line) /\ ~IsAInstruction(line)

\* C6 (as claimed), under SpecPipe: every C-instruction the translator
\* emits has its comp in the assembler's table, its dest in the dest list
\* and its jump in the jump list, and the assembler never stops on an
\* unknown mnemonic.
C6_TranslatorOutputAssembles ==
  /\ \A k \in 1..Len(vm.result) :
       IsCInstruction(vm.result[k]) =>
         LET p == SplitC(vm.result[k])
         IN /\ p.comp \in DOMAIN c_bit_table_
            /\ p.dest = <<>> \/ p.dest \in Range(DestList)
            /\ p.jump = <<>> \/ p.jump \in Range(JumpList)
  /\ asm.err \notin {"KeyError", "ValueError"}

\* C7, under SpecRun: after `call Foo.f k` and the callee's `return`, the
\* return's final jump goes to the ROM address of the call's return label,
\* which is the instruction right after the call; there LCL, ARG, THIS and
\* THAT hold their pre-call values, SP is its pre-call value - k + 1 and
\* the return value is at the pre-call SP - k (for k = 0 the slot that held
\* the saved return address).
C7_CallReturn ==
  (given.kind = "call" /\ cpu.pc = "run") =>
    LET ret == cpu.symbols[<<"F","o","o",".","f",".","r","e","t",".","0">>]
        sp0 == given.ram[0]
    IN /\ ret = Len(CallOp(<<"F","o","o",".","f">>, 0, given.k)) - 1
       /\ cpu.ip = Len(cpu.rom) - 1 => cpu.A = ret
       /\ cpu.ip = ret =>
            /\ Rd(cpu.ram, 0) = sp0 - given.k + 1
            /\ \A p \in 1..4 : Rd(cpu.ram, p) = given.ram[p]
            /\ Rd(cpu.ram, sp0 - given.k) = given.rv

\* C7 witness: a call with no arguments has returned; the return value
\* lies where the return address was saved.
C7_Witness ==
  /\ given.kind = "call"
  /\ given.k = 0
  /\ cpu.pc = "run"
  /\ cpu.ip = cpu.symbols[<<"F","o","o",".","f",".","r","e","t",".","0">>]
  /\ Rd(cpu.ram, 0) = given.ram[0] + 1
  /\ Rd(cpu.ram, given.ram[0]) = given.rv

\* C8 (as claimed), under SpecRun: with x below y on the stack, lt leaves
\* -1 exactly when x < y as signed 16-bit integers, gt when x > y, eq when
\* x = y, and 0 otherwise, in the slot of x, with SP one less.
C8_SignedComparison ==
  (given.kind = "compare" /\ cpu.pc = "halt") =>
    LET x == Signed(given.x)
        y == Signed(given.y)
        holds == CASE given.op = "lt" -> x < y
                   [] given.op = "gt" -> x > y
                   [] given.op = "eq" -> x = y
    IN /\ Rd(cpu.ram, 256) = IF holds THEN 65535 ELSE 0
       /\ Rd(cpu.ram, 0) = given.ram[0] - 1

\* The RAM address of SEG[n]: pointer + n for local, argument, this, that
\* (RAM[1..4]); 5 + n for temp; 3 or 4 for pointer; for static the address
\* the assembler gave the variable Foo.n.
SegmentAddress(seg, n) ==
  CASE seg = "local" -> given.ram[1] + n
    [] seg = "argument" -> given.ram[2] + n
    [] seg = "this" -> given.ram[3] + n
    [] seg = "that" -> given.ram[4] + n
    [] seg = "temp" -> 5 + n
    [] seg = "pointer" -> 3 + n
    [] seg = "static" -> cpu.symbols[Dot(<<"F","o","o">>, Str(n))]

C10_UniqueLabels ==
  \A j, k \in 1..Len(vm.result) :
    (j < k /\ IsLabelLine(vm.result[j]) /\ IsLabelLine(vm.result[k]))
      => vm.result[j] # vm.result[k]
\* s holds sub as a contiguous run of characters.
Contains(s, sub) ==
  \E k \in 0..(Len(s) - Len(sub)) : SubSeq(s, k + 1, k + Len(sub)) = sub

\* The declaration (f.ret.k) of a return label planted by CallOp.
IsReturnLabel(line) == IsLabelLine(line) /\ Contains(line, <<".","r","e","t",".">>)

\* C11 (as claimed), under SpecTranslate: the return labels planted by
\* the call sites of one translation, the call of Sys.init in the boot code
\* included, are pairwise distinct.
C11_ReturnLabelsDistinct ==
  \A j, k \in 1..Len(vm.result) :
    (j < k /\ IsReturnLabel(vm.result[j]) /\ IsReturnLabel(vm.result[k]))
      => vm.result[j] # vm.result[k]

\* The second half of C11: no step of the translation lowers or drops a
\* counter of call_counts.
CallCountsMonotone ==
  [][\A f \in DOMAIN vm.call_counts :
       f \in DOMAIN vm'.call_counts /\ vm'.call_counts[f] >= vm.call_counts[f]]_vars

\* The translation has gone through every file and command without error.
Translated == vm.pc \in {"WriteOutput", "done"}

\* C12 (as claimed), under SpecTranslate: the output of a directory begins
\* with the boot code, whatever the number of its .vm files, and goes on
\* with Sys.vm; the output of a single file given directly has no boot code.
C12_DirectoryGetsBootstrap ==
  Translated =>
    /\ given.mode = "dir" =>
         /\ Len(vm.result) >= Len(BootCode)
         /\ SubSeq(vm.result, 1, Len(BootCode)) = BootCode
         /\ EndsWith(vm.files[1].path, <<"S","y","s",".","v","m">>)
         /\ Range(vm.files) = Range(given.files)
         /\ Len(vm.files) = Len(given.files)
    /\ given.mode = "file" =>
         \A k \in 1..Len(vm.result) : vm.result[k] # <<"@","2","5","6">>
MaxLocals == 2

\* Longest statement sequence drawn from StatementAlphabet.
MaxStmts == 2

\* Most arguments of a call drawn from Arguments.
MaxArgs == 2

(***************************************************************************)
(* The Jack compiler of projects/11.  tokenizer.py: a token is its class,  *)
(* its text and, for an integer constant, the int that int(value) made of  *)
(* the digits.                                                             *)
(***************************************************************************)
KEYWORDS ==
  {<<"c","l","a","s","s">>, <<"c","o","n","s","t","r","u","c","t","o","r">>, <<"f","u","n","c","t","i","o","n">>, <<"m","e","t","h","o","d">>, <<"f","i","e","l","d">>, <<"s","t","a","t","i","c">>,
   <<"v","a","r">>, <<"i","n","t">>, <<"c","h","a","r">>, <<"b","o","o","l","e","a","n">>, <<"b","o","o","l">>, <<"v","o","i","d">>, <<"t","r","u","e">>, <<"f","a","l","s","e">>,
   <<"n","u","l","l">>, <<"t","h","i","s">>, <<"l","e","t">>, <<"d","o">>, <<"i","f">>, <<"e","l","s","e">>, <<"w","h","i","l","e">>, <<"r","e","t","u","r","n">>}

SYMBOLS == {"{", "}", "(", ")", "[", "]", ".", ",", ";", "+", "-", "*", "/",
            "&", "|", "<", ">", "=", "~"}

WHITESPACE == {" ", "\t", "\r"}

BINARY_OPS == {"+", "-", "*", "/", "&", "|", "<", ">", "="}

UNARY_OPS == {"-", "~"}

KEYWORD_CONSTANTS == {<<"t","r","u","e">>, <<"f","a","l","s","e">>, <<"n","u","l","l">>, <<"t","h","i","s">>}

Token(cls, value) == [cls |-> cls, value |-> value, n |-> 0]

KeywordToken(value) == Token("KeywordToken", value)

SymbolToken(c) == Token("SymbolToken", <<c>>)

IntegerConstantToken(n) == [cls |-> "IntegerConstantToken", value |-> <<>>, n |-> n]

StringConstantToken(value) == Token("StringConstantToken", value)

IdentifierToken(value) == Token("IdentifierToken", value)

\* Token.Value(): str(value) of an int, the XML escape of < > &, else the
\* text itself.
TokenValue(t) ==
  IF t.cls = "IntegerConstantToken" THEN Str(t.n)
  ELSE IF t.value = <<"<">> THEN <<"&","l","t",";">>
  ELSE IF t.value = <<">">> THEN <<"&","g","t",";">>
  ELSE IF t.value = <<"&">> THEN <<"&","a","m","p",";">>
  ELSE t.value

\* str.index(sub), from 1; 0 stands for ValueError.
FindSub(s, sub) ==
  LET at == {k \in 1..(Len(s) - Len(sub) + 1) : SubSeq(s, k, k + Len(sub) - 1) = sub}
  IN IF at = {} THEN 0 ELSE CHOOSE k \in at : \A j \in at : k <= j

Lexed(err, tokens) == [err |-> err, tokens |-> tokens]

TokenizeString(value) ==
  IF value = <<>> THEN Lexed("InvalidInputError", <<>>)
  ELSE IF value \in KEYWORDS THEN Lexed("", <<KeywordToken(value)>>)
  ELSE IF AllDigits(value) THEN Lexed("", <<IntegerConstantToken(DigitsVal(value))>>)
  ELSE IF AllDigits(<<value[1]>>) THEN Lexed("SyntaxError", <<>>)
  ELSE Lexed("", <<IdentifierToken(value)>>)

\* One iteration of TokenizeLine's loop, at character i (from 0).
TokenizeLineStep(line, st) ==
  LET c == line[st.i + 1]
      flushed == IF st.cur = <<>> THEN Lexed("", <<>>) ELSE TokenizeString(st.cur)
      rest == SubSeq(line, st.i + 2, Len(line))
      j == FindSub(rest, <<"\"">>)
  IN IF c \in WHITESPACE
     THEN [st EXCEPT !.err = flushed.err, !.tokens = @ \o flushed.tokens,
                     !.cur = <<>>, !.i = @ + 1]
     ELSE IF c \in SYMBOLS
     THEN [st EXCEPT !.err = flushed.err,
                     !.tokens = @ \o flushed.tokens \o <<SymbolToken(c)>>,
                     !.cur = <<>>, !.i = @ + 1]
     ELSE IF c = "\""
     THEN IF st.cur # <<>> \/ j = 0 THEN [st EXCEPT !.err = "SyntaxError"]
          ELSE [st EXCEPT !.tokens = Append(@, StringConstantToken(SubSeq(rest, 1, j - 1))),
                          !.i = @ + j + 1]
     ELSE [st EXCEPT !.cur = Append(@, c), !.i = @ + 1]

\* At most n iterations of the loop.
RECURSIVE TokenizeLineSteps(_, _, _)
TokenizeLineSteps(line, st, n) ==
  IF n <= 0 \/ st.err # "" \/ st.i >= Len(line) THEN st
  ELSE IF n = 1 THEN TokenizeLineStep(line, st)
  ELSE TokenizeLineSteps(line, TokenizeLineSteps(line, st, n \div 2), n - n \div 2)

\* TokenizeLine returns the tokens gathered by the loop; what is left in
\* cur at the end of the line is not made a token.
TokenizeLine(line) ==
  LET st == TokenizeLineSteps(line, [i |-> 0, cur |-> <<>>, tokens |-> <<>>, err |-> ""],
                              Len(line))
  IN Lexed(st.err, st.tokens)

RECURSIVE RemoveMultilineComments(_)
RemoveMultilineComments(jack_file_content) ==
  LET idx == FindSub(jack_file_content, <<"/","*">>)
      opened == SubSeq(jack_file_content, idx + 2, Len(jack_file_content))
      end == FindSub(opened, <<"*","/">>)
      more == RemoveMultilineComments(SubSeq(opened, end + 2, Len(opened)))
  IN IF idx = 0 THEN [err |-> "", text |-> jack_file_content]
     ELSE IF end = 0 THEN [err |-> "SyntaxError", text |-> <<>>]
     ELSE [more EXCEPT !.text = SubSeq(jack_file_content, 1, idx - 1) \o @]

RECURSIVE RemoveSingleLineComments(_)
RemoveSingleLineComments(jack_file_lines) ==
  IF jack_file_lines = <<>> THEN <<>>
  ELSE LET line == Head(jack_file_lines)
           idx == FindSub(line, <<"/","/">>)
           kept == IF idx = 0 THEN <<line>>
                   ELSE IF idx = 1 THEN <<>>
                   ELSE <<SubSeq(line, 1, idx - 1)>>
       IN kept \o RemoveSingleLineComments(Tail(jack_file_lines))

\* The tokens of the lines lo..hi of lexed, one after the other.
RECURSIVE ExtendFrom(_, _, _)
ExtendFrom(lexed, lo, hi) ==
  IF lo > hi THEN <<>>
  ELSE IF lo = hi THEN lexed[lo].tokens
  ELSE LET mid == (lo + hi) \div 2
       IN ExtendFrom(lexed, lo, mid) \o ExtendFrom(lexed, mid + 1, hi)

\* for line in jack_file_lines: tokens.extend(TokenizeLine(line)); the
\* first line that raises ends the loop with its exception.
TokenizeLines(lines) ==
  LET lexed == [k \in 1..Len(lines) |-> TokenizeLine(lines[k])]
      raised == {k \in 1..Len(lines) : lexed[k].err # ""}
  IN IF raised # {}
     THEN Lexed(lexed[CHOOSE k \in raised : \A m \in raised : k <= m].err, <<>>)
     ELSE Lexed("", ExtendFrom(lexed, 1, Len(lines)))

Tokenize(jack_file_content) ==
  LET stripped == RemoveMultilineComments(jack_file_content)
      lexed == TokenizeLines(RemoveSingleLineComments(SplitLines(stripped.text)))
      tokens == lexed.tokens
  IN IF stripped.err # "" THEN Lexed(stripped.err, <<>>)
     ELSE IF lexed.err # "" THEN Lexed(lexed.err, <<>>)
     ELSE IF tokens = <<>> THEN Lexed("IndexError", <<>>)
     ELSE IF tokens[1] # KeywordToken(<<"c","l","a","s","s">>) THEN Lexed("SyntaxError", <<>>)
     ELSE IF tokens[Len(tokens)] # SymbolToken("}") THEN Lexed("SyntaxError", <<>>)
     ELSE lexed

(***************************************************************************)
(* parser.py: the syntax tree.  A node is its class, its text (terminal    *)
(* nodes) and its children (non-terminal nodes); token positions count     *)
(* from 0 as in the code, and reading tokens[i] past the end of the list   *)
(* is Python's IndexError.                                                 *)
(***************************************************************************)
TerminalNode(cls, value) == [cls |-> cls, value |-> value, children |-> <<>>]

NonTerminalNode(cls, children) == [cls |-> cls, value |-> <<>>, children |-> children]

KeywordNode(value) == TerminalNode("KeywordNode", value)

SymbolNode(value) == TerminalNode("SymbolNode", value)

IdentifierNode(value) == TerminalNode("IdentifierNode", value)

IntegerConstantNode(value) == TerminalNode("IntegerConstantNode", value)

StringConstantNode(value) == TerminalNode("StringConstantNode", value)

Parsed(nodes, i) == [err |-> "", nodes |-> nodes, i |-> i]

Failed(err) == [err |-> err, nodes |-> <<>>, i |-> 0]

Has(tokens, i) == i >= 0 /\ i < Len(tokens)

\* The outcome of 'if tokens[i] != token: raise err'.
Expect(tokens, i, token, err) ==
  IF ~Has(tokens, i) THEN "IndexError"
  ELSE IF tokens[i + 1] # token THEN err
  ELSE ""

IsSymbolIn(token, symbols) ==
  token.cls = "SymbolToken" /\ token.value[1] \in symbols

ParseType(tokens, i) ==
  IF ~Has(tokens, i) THEN Failed("IndexError")
  ELSE IF tokens[i + 1].cls = "KeywordToken"
  THEN Parsed(<<KeywordNode(TokenValue(tokens[i + 1]))>>, i + 1)
  ELSE IF tokens[i + 1].cls = "IdentifierToken"
  THEN Parsed(<<IdentifierNode(TokenValue(tokens[i + 1]))>>, i + 1)
  ELSE Failed("SyntaxError")

\* The loop and the end of ParseVarNames: ', name' any number of times,
\* then ';'.
RECURSIVE MoreVarNames(_, _, _)
MoreVarNames(tokens, i, nodes) ==
  IF ~Has(tokens, i) THEN Failed("IndexError")
  ELSE IF tokens[i + 1] = SymbolToken(",")
  THEN IF ~Has(tokens, i + 1) THEN Failed("IndexError")
       ELSE IF tokens[i + 2].cls # "IdentifierToken" THEN Failed("SyntaxError")
       ELSE MoreVarNames(tokens, i + 2,
                         nodes \o <<SymbolNode(<<",">>), IdentifierNode(TokenValue(tokens[i + 2]))>>)
  ELSE IF tokens[i + 1] # SymbolToken(";") THEN Failed("SyntaxError")
  ELSE Parsed(Append(nodes, SymbolNode(<<";">>)), i + 1)

ParseVarNames(tokens, i) ==
  IF ~Has(tokens, i) THEN Failed("IndexError")
  ELSE IF tokens[i + 1].cls # "IdentifierToken" THEN Failed("SyntaxError")
  ELSE MoreVarNames(tokens, i + 1, <<IdentifierNode(TokenValue(tokens[i + 1]))>>)

\* The declarations 'keyword type names;' from position i on, for keyword
\* in kinds: the loops of CompileClassVarDecs and CompileVarDecs.
RECURSIVE VarDecsFrom(_, _, _, _, _)
VarDecsFrom(tokens, i, nodes, kinds, cls) ==
  IF ~Has(tokens, i) THEN Failed("IndexError")
  ELSE IF tokens[i + 1].cls = "KeywordToken" /\ tokens[i + 1].value \in kinds
  THEN LET type == ParseType(tokens, i + 1)
           names == ParseVarNames(tokens, i + 2)
       IN IF type.err # "" THEN type
          ELSE IF names.err # "" THEN names
          ELSE VarDecsFrom(tokens, names.i,
                 Append(nodes, NonTerminalNode(cls,
                   <<KeywordNode(TokenValue(tokens[i + 1]))>> \o type.nodes \o names.nodes)),
                 kinds, cls)
  ELSE Parsed(nodes, i)

CompileClassVarDecs(tokens) ==
  VarDecsFrom(tokens, 0, <<>>, {<<"s","t","a","t","i","c">>, <<"f","i","e","l","d">>}, "ClassVarDecNode")

CompileVarDecs(tokens, i) == VarDecsFrom(tokens, i, <<>>, {<<"v","a","r">>}, "VarDecNode")

RECURSIVE ParameterListFrom(_, _, _)
ParameterListFrom(tokens, i, children) ==
  IF i >= Len(tokens) THEN Parsed(<<NonTerminalNode("ParameterListNode", children)>>, i)
  ELSE LET type == ParseType(tokens, i)
       IN IF type.err # "" THEN type
          ELSE IF ~Has(tokens, i + 1) THEN Failed("IndexError")
          ELSE IF tokens[i + 2].cls # "IdentifierToken" THEN Failed("SyntaxError")
          ELSE LET named == children \o type.nodes
                              \o <<IdentifierNode(TokenValue(tokens[i + 2]))>>
               IN IF Has(tokens, i + 2) /\ tokens[i + 3] = SymbolToken(",")
                  THEN ParameterListFrom(tokens, i + 3, Append(named, SymbolNode(<<",">>)))
                  ELSE ParameterListFrom(tokens, i + 2, named)

ParseParameterList(tokens) == ParameterListFrom(tokens, 0, <<>>)

\* The functions of the parser that call one another do so through Compile,
\* which hands the tokens to the function named by what.
RECURSIVE Compile(_, _, _)
RECURSIVE StatementsFrom(_, _, _)
RECURSIVE ExpressionListFrom(_, _, _)

\* The loop of CompileStatements, from position i on.
StatementsFrom(tokens, i, children) ==
  IF ~Has(tokens, i) THEN Failed("IndexError")
  ELSE IF tokens[i + 1] = SymbolToken("}")
  THEN Parsed(<<NonTerminalNode("StatementsNode", children)>>, i)
  ELSE LET t == tokens[i + 1]
           child == IF t = KeywordToken(<<"l","e","t">>) THEN Compile("LetStatement", tokens, i)
                    ELSE IF t = KeywordToken(<<"d","o">>) THEN Compile("DoStatement", tokens, i)
                    ELSE IF t = KeywordToken(<<"r","e","t","u","r","n">>) THEN Compile("ReturnStatement", tokens, i)
                    ELSE IF t = KeywordToken(<<"w","h","i","l","e">>) THEN Compile("WhileStatement", tokens, i)
                    ELSE IF t = KeywordToken(<<"i","f">>) THEN Compile("IfStatement", tokens, i)
                    ELSE Failed("SyntaxError")
       IN IF child.err # "" THEN child
          ELSE StatementsFrom(tokens, child.i, children \o child.nodes)

CompileStatements(tokens, i) == StatementsFrom(tokens, i, <<>>)

CompileLetStatement(tokens, i) ==
  IF ~Has(tokens, i + 1) THEN Failed("IndexError")
  ELSE IF tokens[i + 2].cls # "IdentifierToken" THEN Failed("SyntaxError")
  ELSE IF ~Has(tokens, i + 2) THEN Failed("IndexError")
  ELSE LET indexed == tokens[i + 3] = SymbolToken("[")
           index == Compile("Expression", tokens, i + 3)
           closed == Expect(tokens, index.i, SymbolToken("]"), "SyntaxError")
           head == <<KeywordNode(<<"l","e","t">>), IdentifierNode(TokenValue(tokens[i + 2]))>>
                   \o IF indexed
                      THEN <<SymbolNode(<<"[">>)>> \o index.nodes \o <<SymbolNode(<<"]">>)>>
                      ELSE <<>>
           j == IF indexed THEN index.i + 1 ELSE i + 2
           assigned == Expect(tokens, j, SymbolToken("="), "SyntaxError")
           value == Compile("Expression", tokens, j + 1)
           ended == Expect(tokens, value.i, SymbolToken(";"), "SyntaxError")
       IN IF indexed /\ index.err # "" THEN index
          ELSE IF indexed /\ closed # "" THEN Failed(closed)
          ELSE IF assigned # "" THEN Failed(assigned)
          ELSE IF value.err # "" THEN value
          ELSE IF ended # "" THEN Failed(ended)
          ELSE Parsed(<<NonTerminalNode("LetStatementNode",
                          head \o <<SymbolNode(<<"=">>)>> \o value.nodes \o <<SymbolNode(<<";">>)>>)>>,
                      value.i + 1)

\* The children of the call are added to the doStatement node itself.
CompileDoStatement(tokens, i) ==
  LET call == Compile("SubroutineCall", tokens, i + 1)
      ended == Expect(tokens, call.i, SymbolToken(";"), "SyntaxError")
  IN IF call.err # "" THEN call
     ELSE IF ended # "" THEN Failed(ended)
     ELSE Parsed(<<NonTerminalNode("DoStatementNode",
                     <<KeywordNode(<<"d","o">>)>> \o call.nodes \o <<SymbolNode(<<";">>)>>)>>,
                 call.i + 1)

CompileReturnStatement(tokens, i) ==
  IF ~Has(tokens, i + 1) THEN Failed("IndexError")
  ELSE LET bare == tokens[i + 2] = SymbolToken(";")
           value == IF bare THEN Parsed(<<>>, i + 1) ELSE Compile("Expression", tokens, i + 1)
           ended == Expect(tokens, value.i, SymbolToken(";"), "SyntaxError")
       IN IF value.err # "" THEN value
          ELSE IF ended # "" THEN Failed(ended)
          ELSE Parsed(<<NonTerminalNode("ReturnStatementNode",
                          <<KeywordNode(<<"r","e","t","u","r","n">>)>> \o value.nodes \o <<SymbolNode(<<";">>)>>)>>,
                      value.i + 1)

CompileWhileStatement(tokens, i) ==
  LET cond == Compile("ParenExpression", tokens, i + 1)
      block == Compile("Block", tokens, cond.i)
  IN IF cond.err # "" THEN cond
     ELSE IF block.err # "" THEN block
     ELSE Parsed(<<NonTerminalNode("WhileStatementNode",
                     <<KeywordNode(<<"w","h","i","l","e">>)>> \o cond.nodes \o block.nodes)>>,
                 block.i)

CompileIfStatement(tokens, i) ==
  LET cond == Compile("ParenExpression", tokens, i + 1)
      block == Compile("Block", tokens, cond.i)
      other == Compile("Block", tokens, block.i + 1)
      head == <<KeywordNode(<<"i","f">>)>> \o cond.nodes \o block.nodes
  IN IF cond.err # "" THEN cond
     ELSE IF block.err # "" THEN block
     ELSE IF ~Has(tokens, block.i) THEN Failed("IndexError")
     ELSE IF tokens[block.i + 1] = KeywordToken(<<"e","l","s","e">>)
     THEN IF other.err # "" THEN other
          ELSE Parsed(<<NonTerminalNode("IfStatementNode",
                          head \o <<KeywordNode(<<"e","l","s","e">>)>> \o other.nodes)>>,
                      other.i)
     ELSE Parsed(<<NonTerminalNode("IfStatementNode", head)>>, block.i)

CompileParenExpression(tokens, i) ==
  LET opened == Expect(tokens, i, SymbolToken("("), "SyntaxError")
      child == Compile("Expression", tokens, i + 1)
      closed == Expect(tokens, child.i, SymbolToken(")"), "SyntaxError")
  IN IF opened # "" THEN Failed(opened)
     ELSE IF child.err # "" THEN child
     ELSE IF closed # "" THEN Failed(closed)
     ELSE Parsed(<<SymbolNode(<<"(">>)>> \o child.nodes \o <<SymbolNode(<<")">>)>>, child.i + 1)

CompileBlock(tokens, i) ==
  LET opened == Expect(tokens, i, SymbolToken("{"), "SyntaxError")
      child == Compile("Statements", tokens, i + 1)
      closed == Expect(tokens, child.i, SymbolToken("}"), "SyntaxError")
  IN IF opened # "" THEN Failed(opened)
     ELSE IF child.err # "" THEN child
     ELSE IF closed # "" THEN Failed(closed)
     ELSE Parsed(<<SymbolNode(<<"{">>)>> \o child.nodes \o <<SymbolNode(<<"}">>)>>, child.i + 1)

\* term (op term)*: every (op term) pair that follows is taken.
RECURSIVE MoreTerms(_, _, _)
MoreTerms(tokens, i, children) ==
  IF ~Has(tokens, i) THEN Failed("IndexError")
  ELSE IF IsSymbolIn(tokens[i + 1], BINARY_OPS)
  THEN LET next == Compile("Term", tokens, i + 1)
       IN IF next.err # "" THEN next
          ELSE MoreTerms(tokens, next.i,
                         children \o <<SymbolNode(TokenValue(tokens[i + 1]))>> \o next.nodes)
  ELSE Parsed(<<NonTerminalNode("ExpressionNode", children)>>, i)

CompileExpressionChain(tokens, i) ==
  LET first == Compile("Term", tokens, i)
  IN IF first.err # "" THEN first ELSE MoreTerms(tokens, first.i, first.nodes)

\* term (op term)?
CompileExpression(tokens, i) ==
  LET first == Compile("Term", tokens, i)
      second == Compile("Term", tokens, first.i + 1)
  IN IF first.err # "" THEN first
     ELSE IF ~Has(tokens, first.i) THEN Failed("IndexError")
     ELSE IF IsSymbolIn(tokens[first.i + 1], BINARY_OPS)
     THEN IF second.err # "" THEN second
          ELSE Parsed(<<NonTerminalNode("ExpressionNode",
                          first.nodes \o <<SymbolNode(TokenValue(tokens[first.i + 1]))>>
                          \o second.nodes)>>,
                      second.i)
     ELSE Parsed(<<NonTerminalNode("ExpressionNode", first.nodes)>>, first.i)

CompileTerm(tokens, i) ==
  IF ~Has(tokens, i) THEN Failed("IndexError")
  ELSE
    LET t == tokens[i + 1]
        Term(children, j) == Parsed(<<NonTerminalNode("TermNode", children)>>, j)
        call == Compile("SubroutineCall", tokens, i)
        index == Compile("Expression", tokens, i + 2)
        closed == Expect(tokens, index.i, SymbolToken("]"), "SyntaxError")
        paren == Compile("ParenExpression", tokens, i)
        operand == Compile("Term", tokens, i + 1)
    IN IF t.cls = "IntegerConstantToken"
       THEN Term(<<IntegerConstantNode(TokenValue(t))>>, i + 1)
       ELSE IF t.cls = "StringConstantToken"
       THEN Term(<<StringConstantNode(TokenValue(t))>>, i + 1)
       ELSE IF t.cls = "KeywordToken" /\ t.value \in KEYWORD_CONSTANTS
       THEN Term(<<KeywordNode(TokenValue(t))>>, i + 1)
       ELSE IF t.cls = "IdentifierToken"
       THEN IF ~Has(tokens, i + 1) THEN Failed("IndexError")
            ELSE IF tokens[i + 2] = SymbolToken("(") \/ tokens[i + 2] = SymbolToken(".")
            THEN IF call.err # "" THEN call ELSE Term(call.nodes, call.i)
            ELSE IF tokens[i + 2] = SymbolToken("[")
            THEN IF index.err # "" THEN index
                 ELSE IF closed # "" THEN Failed(closed)
                 ELSE Term(<<IdentifierNode(TokenValue(t)), SymbolNode(<<"[">>)>>
                           \o index.nodes \o <<SymbolNode(<<"]">>)>>, index.i + 1)
            ELSE Term(<<IdentifierNode(TokenValue(t))>>, i + 1)
       ELSE IF t = SymbolToken("(")
       THEN IF paren.err # "" THEN paren ELSE Term(paren.nodes, paren.i)
       ELSE IF IsSymbolIn(t, UNARY_OPS)
       THEN IF operand.err # "" THEN operand
            ELSE Term(<<SymbolNode(TokenValue(t))>> \o operand.nodes, operand.i)
       ELSE Failed("SyntaxError")

\* The loop of CompileSubroutineCall over the arguments, up to the ')'.
ExpressionListFrom(tokens, i, children) ==
  IF ~Has(tokens, i) THEN Failed("IndexError")
  ELSE IF tokens[i + 1] = SymbolToken(")") THEN Parsed(children, i)
  ELSE LET child == Compile("Expression", tokens, i)
       IN IF child.err # "" THEN child
          ELSE IF ~Has(tokens, child.i) THEN Failed("IndexError")
          ELSE IF tokens[child.i + 1] = SymbolToken(",")
          THEN ExpressionListFrom(tokens, child.i + 1,
                                  children \o child.nodes \o <<SymbolNode(<<",">>)>>)
          ELSE IF tokens[child.i + 1] = SymbolToken(")")
          THEN Parsed(children \o child.nodes, child.i)
          ELSE Failed("SyntaxError")

CompileSubroutineCall(tokens, i) ==
  IF ~Has(tokens, i) \/ ~Has(tokens, i + 1) THEN Failed("IndexError")
  ELSE
    LET qualified == tokens[i + 2] = SymbolToken(".")
        j == IF qualified THEN i + 3 ELSE i + 1
        head == <<IdentifierNode(TokenValue(tokens[i + 1]))>>
                \o IF qualified
                   THEN <<SymbolNode(<<".">>), IdentifierNode(TokenValue(tokens[i + 3]))>>
                   ELSE <<>>
        opened == Expect(tokens, j, SymbolToken("("), "SyntaxError")
        list == ExpressionListFrom(tokens, j + 1, <<>>)
    IN IF qualified /\ ~Has(tokens, i + 2) THEN Failed("IndexError")
       ELSE IF qualified /\ tokens[i + 3].cls # "IdentifierToken" THEN Failed("SyntaxError")
       ELSE IF opened # "" THEN Failed(opened)
       ELSE IF list.err # "" THEN list
       ELSE Parsed(head \o <<SymbolNode(<<"(">>), NonTerminalNode("ExpressionListNode", list.nodes),
                             SymbolNode(<<")">>)>>,
                   list.i + 1)

CompileSubroutineBody(tokens, i) ==
  LET opened == Expect(tokens, i, SymbolToken("{"), "SyntaxError")
      decs == CompileVarDecs(tokens, i + 1)
      child == Compile("Statements", tokens, decs.i)
      closed == Expect(tokens, child.i, SymbolToken("}"), "SyntaxError")
  IN IF opened # "" THEN Failed(opened)
     ELSE IF decs.err # "" THEN decs
     ELSE IF child.err # "" THEN child
     ELSE IF closed # "" THEN Failed(closed)
     ELSE Parsed(<<NonTerminalNode("SubroutineBodyNode",
                     <<SymbolNode(<<"{">>)>> \o decs.nodes \o child.nodes \o <<SymbolNode(<<"}">>)>>)>>,
                 child.i + 1)

\* The first j >= i with tokens[j] the symbol ')'; reading past the end
\* of the tokens is an IndexError.
RECURSIVE ClosingParen(_, _)
ClosingParen(tokens, j) ==
  IF ~Has(tokens, j) THEN -1
  ELSE IF tokens[j + 1] = SymbolToken(")") THEN j
  ELSE ClosingParen(tokens, j + 1)

\* The loop of CompileSubroutines, from position i on.
RECURSIVE SubroutinesFrom(_, _, _)
SubroutinesFrom(tokens, i, nodes) ==
  IF i >= Len(tokens) THEN Parsed(nodes, i)
  ELSE IF ~(tokens[i + 1].cls = "KeywordToken"
            /\ tokens[i + 1].value \in {<<"c","o","n","s","t","r","u","c","t","o","r">>, <<"m","e","t","h","o","d">>, <<"f","u","n","c","t","i","o","n">>})
  THEN Failed("SyntaxError")
  ELSE
    LET type == ParseType(tokens, i + 1)
        j == ClosingParen(tokens, i + 4)
        params == ParseParameterList(SubSeq(tokens, i + 5, j))
        body == Compile("SubroutineBody", tokens, j + 1)
        opened == Expect(tokens, i + 3, SymbolToken("("), "SyntaxError")
    IN IF type.err # "" THEN type
       ELSE IF ~Has(tokens, i + 2) THEN Failed("IndexError")
       ELSE IF tokens[i + 3].cls # "IdentifierToken" THEN Failed("SyntaxError")
       ELSE IF opened # "" THEN Failed(opened)
       ELSE IF j < 0 THEN Failed("IndexError")
       ELSE IF params.err # "" THEN params
       ELSE IF body.err # "" THEN body
       ELSE SubroutinesFrom(tokens, body.i,
              Append(nodes, NonTerminalNode("SubroutineDecNode",
                <<KeywordNode(TokenValue(tokens[i + 1]))>> \o type.nodes
                \o <<IdentifierNode(TokenValue(tokens[i + 3])), SymbolNode(<<"(">>)>>
                \o params.nodes \o <<SymbolNode(<<")">>)>> \o body.nodes)))

CompileSubroutines(tokens) == SubroutinesFrom(tokens, 0, <<>>)

Compile(what, tokens, i) ==
  CASE what = "LetStatement" -> CompileLetStatement(tokens, i)
    [] what = "DoStatement" -> CompileDoStatement(tokens, i)
    [] what = "ReturnStatement" -> CompileReturnStatement(tokens, i)
    [] what = "WhileStatement" -> CompileWhileStatement(tokens, i)
    [] what = "IfStatement" -> CompileIfStatement(tokens, i)
    [] what = "ParenExpression" -> CompileParenExpression(tokens, i)
    [] what = "Block" -> CompileBlock(tokens, i)
    [] what = "Expression" -> CompileExpression(tokens, i)
    [] what = "Term" -> CompileTerm(tokens, i)
    [] what = "SubroutineCall" -> CompileSubroutineCall(tokens, i)
    [] what = "Statements" -> CompileStatements(tokens, i)
    [] what = "SubroutineBody" -> CompileSubroutineBody(tokens, i)
    [] what = "Subroutines" -> CompileSubroutines(tokens)

CompileClass(tokens) ==
  IF tokens[1] # KeywordToken(<<"c","l","a","s","s">>) THEN Failed("InvalidInputError")
  ELSE IF ~Has(tokens, 1) THEN Failed("IndexError")
  ELSE IF tokens[2].cls # "IdentifierToken" THEN Failed("InvalidInputError")
  ELSE IF ~Has(tokens, 2) THEN Failed("IndexError")
  ELSE IF \/ tokens[3] # SymbolToken("{")
          \/ tokens[Len(tokens)] # SymbolToken("}")
  THEN Failed("InvalidInputError")
  ELSE LET inner == SubSeq(tokens, 4, Len(tokens) - 1)
           decs == CompileClassVarDecs(inner)
           subs == Compile("Subroutines", SubSeq(inner, decs.i + 1, Len(inner)), 0)
       IN IF decs.err # "" THEN decs
          ELSE IF subs.err # "" THEN subs
          ELSE Parsed(<<NonTerminalNode("ClassNode",
                          <<KeywordNode(<<"c","l","a","s","s">>), IdentifierNode(TokenValue(tokens[2])),
                            SymbolNode(<<"{">>)>>
                          \o decs.nodes \o subs.nodes \o <<SymbolNode(<<"}">>)>>)>>,
                      Len(tokens))

(***************************************************************************)
(* symboltable.py                                                          *)
(***************************************************************************)
Variable(name, type, kind, index, cls_name) ==
  [name |-> name, type |-> type, kind |-> kind, index |-> index, cls_name |-> cls_name]

VariableKind == {"field", "static", "local", "argument"}

SymbolTable == [none |-> FALSE, symbols |-> <<>>, cur_indices |-> [k \in VariableKind |-> 0]]

\* self.subroutine_symbol_table = None
NoSymbolTable == [SymbolTable EXCEPT !.none = TRUE]

\* VariableTypeFromNode: the type, or "" for SyntaxError.
VariableTypeFromNode(node) ==
  IF node = KeywordNode(<<"i","n","t">>) THEN "int"
  ELSE IF node = KeywordNode(<<"c","h","a","r">>) THEN "char"
  ELSE IF node = KeywordNode(<<"b","o","o","l","e","a","n">>) \/ node = KeywordNode(<<"b","o","o","l">>) THEN "boolean"
  ELSE IF node.cls = "IdentifierNode" THEN "identifier"
  ELSE ""

\* SymbolTable.Add: the table with the new variable, or err set.
Add(table, name, type, kind, cls_name) ==
  IF name \in DOMAIN table.symbols THEN [err |-> "SyntaxError", table |-> table]
  ELSE [err |-> "",
        table |-> [table EXCEPT
          !.symbols = (name :> Variable(name, type, kind, table.cur_indices[kind],
                                        IF type = "identifier" THEN cls_name ELSE <<>>)) @@ @,
          !.cur_indices[kind] = @ + 1]]

GetNumberOfFieldsAnyKind(table) == Cardinality(DOMAIN table.symbols)

GetNumberOfFields(table) ==
  Cardinality({name \in DOMAIN table.symbols : table.symbols[name].kind = "field"})

(***************************************************************************)
(* JackCompiler.py: the CodeWriter.  An exception raised by a method is    *)
(* kept in err, and no method does anything once err is set.               *)
(***************************************************************************)
NewCodeWriter ==
  [output |-> <<>>, cls_symbol_table |-> SymbolTable,
   subroutine_symbol_table |-> NoSymbolTable, class_name |-> <<>>,
   subroutine_name |-> <<>>, subroutine_label_count |-> 0, err |-> ""]

Throw(w, exc) == IF w.err # "" THEN w ELSE [w EXCEPT !.err = exc]

\* Token.Value() of a node: the text, with the XML escape of < > &.
NodeValue(node) ==
  IF node.value = <<"<">> THEN <<"&","l","t",";">>
  ELSE IF node.value = <<">">> THEN <<"&","g","t",";">>
  ELSE IF node.value = <<"&">> THEN <<"&","a","m","p",";">>
  ELSE node.value

VMSegmentFromKind(kind) ==
  IF kind = "field" THEN <<"t","h","i","s">>
  ELSE IF kind = "static" THEN <<"s","t","a","t","i","c">>
  ELSE IF kind = "local" THEN <<"l","o","c","a","l">>
  ELSE <<"a","r","g","u","m","e","n","t">>

\* GetSymbol that asks the table of the class first.
GetSymbolClassFirst(w, name) ==
  IF w.subroutine_symbol_table.none THEN [err |-> "AttributeError"]
  ELSE IF name \in DOMAIN w.cls_symbol_table.symbols
  THEN [err |-> "", var |-> w.cls_symbol_table.symbols[name]]
  ELSE IF name \in DOMAIN w.subroutine_symbol_table.symbols
  THEN [err |-> "", var |-> w.subroutine_symbol_table.symbols[name]]
  ELSE [err |-> "SyntaxError"]

\* GetSymbol: the variable, or err = SyntaxError (AttributeError without
\* a subroutine table).
GetSymbol(w, name) ==
  IF w.subroutine_symbol_table.none THEN [err |-> "AttributeError"]
  ELSE IF name \in DOMAIN w.subroutine_symbol_table.symbols
  THEN [err |-> "", var |-> w.subroutine_symbol_table.symbols[name]]
  ELSE IF name \in DOMAIN w.cls_symbol_table.symbols
  THEN [err |-> "", var |-> w.cls_symbol_table.symbols[name]]
  ELSE [err |-> "SyntaxError"]

Write(w, line) == IF w.err # "" THEN w ELSE [w EXCEPT !.output = Append(@, line)]

WritePush(w, segment, index) == Write(w, <<"p","u","s","h"," ">> \o segment \o <<" ">> \o Str(index))

WritePop(w, segment, index) == Write(w, <<"p","o","p"," ">> \o segment \o <<" ">> \o Str(index))

WriteCall(w, cls_name, subroutine_name, n_args) ==
  Write(w, <<"c","a","l","l"," ">> \o cls_name \o <<".">> \o subroutine_name \o <<" ">> \o Str(n_args))

ScopedLabel(w, label) == w.class_name \o <<".">> \o w.subroutine_name \o <<".">> \o label

WriteLabel(w, label) == Write(w, <<"l","a","b","e","l"," ">> \o ScopedLabel(w, label))

WriteGoto(w, label) == Write(w, <<"g","o","t","o"," ">> \o ScopedLabel(w, label))

WriteIfGoto(w, label) == Write(w, <<"i","f","-","g","o","t","o"," ">> \o ScopedLabel(w, label))

\* Push the variable called name, as WritePush(VMSegmentFromKind(var.kind),
\* var.index) after GetSymbol.
PushSymbol(w, name) ==
  LET found == GetSymbol(w, name)
  IN IF w.err # "" THEN w
     ELSE IF found.err # "" THEN Throw(w, found.err)
     ELSE WritePush(w, VMSegmentFromKind(found.var.kind), found.var.index)

PopSymbol(w, name) ==
  LET found == GetSymbol(w, name)
  IN IF w.err # "" THEN w
     ELSE IF found.err # "" THEN Throw(w, found.err)
     ELSE WritePop(w, VMSegmentFromKind(found.var.kind), found.var.index)

\* The names of a declaration (children[2:] that are identifiers) added
\* to a table, from child k on.
RECURSIVE AddNames(_, _, _, _, _, _)
AddNames(table, children, k, type, kind, cls_name) ==
  IF k > Len(children) THEN [err |-> "", table |-> table]
  ELSE IF children[k].cls = "IdentifierNode"
  THEN LET added == Add(table, NodeValue(children[k]), type, kind, cls_name)
       IN IF added.err # "" THEN added
          ELSE AddNames(added.table, children, k + 1, type, kind, cls_name)
  ELSE AddNames(table, children, k + 1, type, kind, cls_name)

AddClassSymbol(w, node) ==
  LET kind == IF node.children[1] = KeywordNode(<<"s","t","a","t","i","c">>) THEN "static" ELSE "field"
      var_type == VariableTypeFromNode(node.children[2])
      added == AddNames(w.cls_symbol_table, node.children, 3, var_type, kind,
                        NodeValue(node.children[2]))
  IN IF w.err # "" THEN w
     ELSE IF var_type = "" THEN Throw(w, "SyntaxError")
     ELSE IF added.err # "" THEN Throw(w, added.err)
     ELSE [w EXCEPT !.cls_symbol_table = added.table]

AddLocalVariableSymbol(w, var_dec) ==
  LET var_type == VariableTypeFromNode(var_dec.children[2])
      added == AddNames(w.subroutine_symbol_table, var_dec.children, 3, var_type, "local",
                        NodeValue(var_dec.children[2]))
  IN IF w.err # "" THEN w
     ELSE IF var_type = "" THEN Throw(w, "SyntaxError")
     ELSE IF added.err # "" THEN Throw(w, added.err)
     ELSE [w EXCEPT !.subroutine_symbol_table = added.table]

\* The loop of AddArgumentSymbols from child i (from 0) on: a type at
\* i % 3 = 0, a name at i % 3 = 1.
RECURSIVE AddArgumentsFrom(_, _, _, _)
AddArgumentsFrom(w, children, i, type_node) ==
  IF w.err # "" \/ i >= Len(children) THEN w
  ELSE IF i % 3 = 0
  THEN IF VariableTypeFromNode(children[i + 1]) = "" THEN Throw(w, "SyntaxError")
       ELSE AddArgumentsFrom(w, children, i + 1, children[i + 1])
  ELSE IF i % 3 = 1
  THEN LET added == Add(w.subroutine_symbol_table, NodeValue(children[i + 1]),
                        VariableTypeFromNode(type_node), "argument", NodeValue(type_node))
       IN IF added.err # "" THEN Throw(w, added.err)
          ELSE AddArgumentsFrom([w EXCEPT !.subroutine_symbol_table = added.table],
                                children, i + 1, type_node)
  ELSE AddArgumentsFrom(w, children, i + 1, type_node)

\* AddArgumentSymbols that leaves the index of the first argument at 0
\* for a method as well.
AddArgumentSymbolsFromZero(w, parameter_list, is_method) ==
  IF w.err # "" THEN w
  ELSE AddArgumentsFrom(w, parameter_list.children, 0, KeywordNode(<<"i","n","t">>))

AddArgumentSymbols(w, parameter_list, is_method) ==
  IF w.err # "" THEN w
  ELSE AddArgumentsFrom(
         IF is_method
         THEN [w EXCEPT !.subroutine_symbol_table.cur_indices["argument"] = 1]
         ELSE w,
         parameter_list.children, 0, KeywordNode(<<"i","n","t">>))

\* The characters of codes 32 to 95 and of codes 97 to 126.
AsciiFrom32 ==
  <<" ", "!", "\"", "#", "$", "%", "&", "'", "(", ")", "*", "+", ",", "-", ".", "/",
    "0", "1", "2", "3", "4", "5", "6", "7", "8", "9", ":", ";", "<", "=", ">", "?",
    "@", "A", "B", "C", "D", "E", "F", "G", "H", "I", "J", "K", "L", "M", "N", "O",
    "P", "Q", "R", "S", "T", "U", "V", "W", "X", "Y", "Z", "[", "\\", "]", "^", "_">>

AsciiFrom97 ==
  <<"a", "b", "c", "d", "e", "f", "g", "h", "i", "j", "k", "l", "m", "n", "o", "p",
    "q", "r", "s", "t", "u", "v", "w", "x", "y", "z", "{", "|", "}", "~">>

\* ord(c), for the printable ASCII characters.
Ord(c) ==
  IF c \in Range(AsciiFrom97) THEN 96 + IndexOf(AsciiFrom97, c)
  ELSE 31 + IndexOf(AsciiFrom32, c)


\* The methods of the CodeWriter that call one another do so through
\* TranslateNode, which hands the node to the method named by what.
RECURSIVE TranslateNode(_, _, _)
RECURSIVE TranslateTermsFrom(_, _, _)
RECURSIVE TranslateExpressionsFrom(_, _, _)
RECURSIVE TranslateStatementsFrom(_, _, _)

TranslateOp(w, node) ==
  LET symbol == NodeValue(node)
  IN IF symbol = <<"+">> THEN Write(w, <<"a","d","d">>)
     ELSE IF symbol = <<"-">> THEN Write(w, <<"s","u","b">>)
     ELSE IF symbol = <<"*">> THEN WriteCall(w, <<"M","a","t","h">>, <<"m","u","l","t","i","p","l","y">>, 2)
     ELSE IF symbol = <<"/">> THEN WriteCall(w, <<"M","a","t","h">>, <<"d","i","v","i","d","e">>, 2)
     ELSE IF symbol = <<"&">> THEN Write(w, <<"a","n","d">>)
     ELSE IF symbol = <<"|">> THEN Write(w, <<"o","r">>)
     ELSE IF symbol = <<"<">> THEN Write(w, <<"l","t">>)
     ELSE IF symbol = <<">">> THEN Write(w, <<"g","t">>)
     ELSE IF symbol # <<"=">> THEN Throw(w, "AssertionError")
     ELSE Write(w, <<"e","q">>)

\* while op_stack: self.TranslateOp(op_stack.pop()), the operators being
\* the children at the odd positions (from 0) up to position i.
RECURSIVE TranslateOpsDownFrom(_, _, _)
TranslateOpsDownFrom(w, children, i) ==
  IF w.err # "" \/ i < 1 THEN w
  ELSE TranslateOpsDownFrom(TranslateOp(w, children[i + 1]), children, i - 2)

\* The for loop of TranslateExpression from child i (from 0) on.
TranslateTermsFrom(w, children, i) ==
  IF w.err # "" \/ i >= Len(children) THEN w
  ELSE IF i % 2 = 0
  THEN IF children[i + 1].cls # "TermNode" THEN Throw(w, "AssertionError")
       ELSE TranslateTermsFrom(TranslateNode("Term", w, children[i + 1]), children, i + 1)
  ELSE IF children[i + 1].cls # "SymbolNode" THEN Throw(w, "AssertionError")
  ELSE TranslateTermsFrom(w, children, i + 1)

TranslateExpression(w, node) ==
  IF w.err # "" THEN w
  ELSE IF Len(node.children) = 1
  THEN IF node.children[1].cls # "TermNode" THEN Throw(w, "AssertionError")
       ELSE TranslateNode("Term", w, node.children[1])
  ELSE IF Len(node.children) % 2 # 1 THEN Throw(w, "AssertionError")
  ELSE TranslateOpsDownFrom(TranslateTermsFrom(w, node.children, 0), node.children,
                            Len(node.children) - 2)

\* push constant ord(c); call String.appendChar 2, for the characters of
\* s from k on.
RECURSIVE AppendChars(_, _, _)
AppendChars(w, s, k) ==
  IF w.err # "" \/ k > Len(s) THEN w
  ELSE AppendChars(WriteCall(WritePush(w, <<"c","o","n","s","t","a","n","t">>, Ord(s[k])), <<"S","t","r","i","n","g">>, <<"a","p","p","e","n","d","C","h","a","r">>, 2),
                   s, k + 1)

TranslateSimpleTerm(w, node) ==
  LET child == node.children[1]
      kw == NodeValue(child)
  IN IF w.err # "" THEN w
     ELSE IF child.cls = "IntegerConstantNode"
     THEN WritePush(w, <<"c","o","n","s","t","a","n","t">>, DigitsVal(NodeValue(child)))
     ELSE IF child.cls = "StringConstantNode"
     THEN AppendChars(WriteCall(WritePush(w, <<"c","o","n","s","t","a","n","t">>, Len(NodeValue(child))),
                                <<"S","t","r","i","n","g">>, <<"n","e","w">>, 1),
                      NodeValue(child), 1)
     ELSE IF child.cls = "KeywordNode"
     THEN IF kw \notin KEYWORD_CONSTANTS THEN Throw(w, "AssertionError")
          ELSE IF kw = <<"t","r","u","e">> THEN Write(WritePush(w, <<"c","o","n","s","t","a","n","t">>, 1), <<"n","e","g">>)
          ELSE IF kw = <<"t","h","i","s">> THEN WritePush(w, <<"p","o","i","n","t","e","r">>, 0)
          ELSE WritePush(w, <<"c","o","n","s","t","a","n","t">>, 0)
     ELSE IF child.cls # "IdentifierNode" THEN Throw(w, "AssertionError")
     ELSE PushSymbol(w, NodeValue(child))

TranslateTerm(w, node) ==
  LET first == node.children[1]
  IN IF w.err # "" THEN w
     ELSE IF Len(node.children) = 1 THEN TranslateSimpleTerm(w, node)
     ELSE IF first.cls = "SymbolNode"
     THEN IF NodeValue(first) \in {<<"-">>, <<"~">>}
          THEN IF node.children[2].cls # "TermNode" THEN Throw(w, "AssertionError")
               ELSE Write(TranslateNode("Term", w, node.children[2]),
                          IF NodeValue(first) = <<"-">> THEN <<"n","e","g">> ELSE <<"n","o","t">>)
          ELSE IF \/ first # SymbolNode(<<"(">>)
                  \/ Len(node.children) # 3
                  \/ node.children[3] # SymbolNode(<<")">>)
          THEN Throw(w, "AssertionError")
          ELSE TranslateNode("Expression", w, node.children[2])
     ELSE IF first.cls # "IdentifierNode" THEN Throw(w, "AssertionError")
     ELSE IF node.children[2] = SymbolNode(<<".">>) \/ node.children[2] = SymbolNode(<<"(">>)
     THEN TranslateNode("SubroutineCall", w, node)
     ELSE LET pushed == PushSymbol(w, NodeValue(first))
          IN IF pushed.err # "" THEN pushed
             ELSE IF node.children[2] # SymbolNode(<<"[">>) \/ node.children[3].cls # "ExpressionNode"
             THEN Throw(pushed, "AssertionError")
             ELSE WritePush(WritePop(Write(TranslateNode("Expression", pushed, node.children[3]),
                                           <<"a","d","d">>),
                                     <<"p","o","i","n","t","e","r">>, 1),
                            <<"t","h","a","t">>, 0)

\* The number of expressions of an expression list.
CountExpressions(children) ==
  Cardinality({k \in 1..Len(children) : children[k].cls = "ExpressionNode"})

\* The loop of TranslateExpressionList from child k on.
TranslateExpressionsFrom(w, children, k) ==
  IF w.err # "" \/ k > Len(children) THEN w
  ELSE IF children[k].cls = "ExpressionNode"
  THEN TranslateExpressionsFrom(TranslateNode("Expression", w, children[k]), children, k + 1)
  ELSE TranslateExpressionsFrom(w, children, k + 1)

TranslateExpressionList(w, node) == TranslateExpressionsFrom(w, node.children, 1)

\* TranslateSubroutineCall that never counts the receiver of a qualified
\* call as an argument.
TranslateSubroutineCallNoReceiverArg(w, node) ==
  IF w.err # "" THEN w
  ELSE IF node.children[2] = SymbolNode(<<".">>)
  THEN LET found == GetSymbol(w, NodeValue(node.children[1]))
           is_var == found.err = ""
           pushed == IF is_var
                     THEN WritePush(w, VMSegmentFromKind(found.var.kind), found.var.index)
                     ELSE w
           cls_name == IF is_var THEN found.var.cls_name ELSE NodeValue(node.children[1])
           expr_list == node.children[5]
       IN IF found.err \notin {"", "SyntaxError"} THEN Throw(w, found.err)
          ELSE IF expr_list.cls # "ExpressionListNode" THEN Throw(pushed, "AssertionError")
          ELSE WriteCall(TranslateExpressionList(pushed, expr_list), cls_name,
                         NodeValue(node.children[3]), CountExpressions(expr_list.children))
  ELSE IF node.children[2] = SymbolNode(<<"(">>)
  THEN LET expr_list == node.children[3]
       IN IF expr_list.cls # "ExpressionListNode" THEN Throw(w, "AssertionError")
          ELSE WriteCall(TranslateExpressionList(WritePush(w, <<"p","o","i","n","t","e","r">>, 0), expr_list),
                         w.class_name, NodeValue(node.children[1]),
                         CountExpressions(expr_list.children) + 1)
  ELSE w

TranslateSubroutineCall(w, node) ==
  IF w.err # "" THEN w
  ELSE IF node.children[2] = SymbolNode(<<".">>)
  THEN LET found == GetSymbol(w, NodeValue(node.children[1]))
           is_var == found.err = ""
           pushed == IF is_var
                     THEN WritePush(w, VMSegmentFromKind(found.var.kind), found.var.index)
                     ELSE w
           cls_name == IF is_var THEN found.var.cls_name ELSE NodeValue(node.children[1])
           n_method_args == IF is_var THEN 1 ELSE 0
           expr_list == node.children[5]
       IN IF found.err \notin {"", "SyntaxError"} THEN Throw(w, found.err)
          ELSE IF expr_list.cls # "ExpressionListNode" THEN Throw(pushed, "AssertionError")
          ELSE WriteCall(TranslateExpressionList(pushed, expr_list), cls_name,
                         NodeValue(node.children[3]),
                         CountExpressions(expr_list.children) + n_method_args)
  ELSE IF node.children[2] = SymbolNode(<<"(">>)
  THEN LET expr_list == node.children[3]
       IN IF expr_list.cls # "ExpressionListNode" THEN Throw(w, "AssertionError")
          ELSE WriteCall(TranslateExpressionList(WritePush(w, <<"p","o","i","n","t","e","r">>, 0), expr_list),
                         w.class_name, NodeValue(node.children[1]),
                         CountExpressions(expr_list.children) + 1)
  ELSE w

TranslateLetStatement(w, node) ==
  LET var_name == NodeValue(node.children[2])
      found == GetSymbol(w, var_name)
      var == found.var
      segment == VMSegmentFromKind(var.kind)
  IN IF w.err # "" THEN w
     ELSE IF found.err # "" THEN Throw(w, found.err)
     ELSE IF node.children[3] = SymbolNode(<<"[">>)
     THEN IF node.children[4].cls # "ExpressionNode" \/ node.children[7].cls # "ExpressionNode"
          THEN Throw(WritePush(w, segment, var.index), "AssertionError")
          ELSE WritePop(
                 WritePush(
                   WritePop(
                     Write(
                       WritePush(
                         WritePop(
                           TranslateNode("Expression", 
                             TranslateNode("Expression", WritePush(w, segment, var.index),
                                                 node.children[4]),
                             node.children[7]),
                           <<"t","e","m","p">>, 0),
                         segment, var.index),
                       <<"a","d","d">>),
                     <<"p","o","i","n","t","e","r">>, 1),
                   <<"t","e","m","p">>, 0),
                 <<"t","h","a","t">>, 0)
     ELSE IF node.children[3] # SymbolNode(<<"=">>) \/ node.children[4].cls # "ExpressionNode"
     THEN Throw(w, "AssertionError")
     ELSE WritePop(TranslateNode("Expression", w, node.children[4]), segment, var.index)

\* The call is looked for in children[1], as one term node.
TranslateDoStatement(w, node) ==
  LET term == node.children[2]
  IN IF w.err # "" THEN w
     ELSE IF term.cls # "TermNode" THEN Throw(w, "AssertionError")
     ELSE WritePop(TranslateSubroutineCall(w, term), <<"t","e","m","p">>, 0)

TranslateReturnStatement(w, node) ==
  IF w.err # "" THEN w
  ELSE IF node.children[2].cls = "ExpressionNode"
  THEN Write(TranslateNode("Expression", w, node.children[2]), <<"r","e","t","u","r","n">>)
  ELSE IF node.children[2] # SymbolNode(<<";">>) THEN Throw(w, "AssertionError")
  ELSE Write(WritePush(w, <<"c","o","n","s","t","a","n","t">>, 0), <<"r","e","t","u","r","n">>)

\* TranslateWhileStatement that leaves subroutine_label_count as it is.
TranslateWhileStatementSameCount(w, node) ==
  LET expr == node.children[3]
      count == Str(w.subroutine_label_count)
      while_label1 == <<"W","h","i","l","e",".","1",".">> \o count
      while_label2 == <<"W","h","i","l","e",".","2",".">> \o count
      statements == node.children[6]
      counted == w
  IN IF w.err # "" THEN w
     ELSE IF expr.cls # "ExpressionNode" THEN Throw(w, "AssertionError")
     ELSE IF statements.cls # "StatementsNode" THEN Throw(counted, "AssertionError")
     ELSE WriteLabel(
            WriteGoto(
              TranslateNode("Statements", 
                WriteIfGoto(
                  Write(TranslateNode("Expression", WriteLabel(counted, while_label1), expr), <<"n","o","t">>),
                  while_label2),
                statements),
              while_label1),
            while_label2)

TranslateWhileStatement(w, node) ==
  LET expr == node.children[3]
      count == Str(w.subroutine_label_count)
      while_label1 == <<"W","h","i","l","e",".","1",".">> \o count
      while_label2 == <<"W","h","i","l","e",".","2",".">> \o count
      statements == node.children[6]
      counted == [w EXCEPT !.subroutine_label_count = @ + 1]
  IN IF w.err # "" THEN w
     ELSE IF expr.cls # "ExpressionNode" THEN Throw(w, "AssertionError")
     ELSE IF statements.cls # "StatementsNode" THEN Throw(counted, "AssertionError")
     ELSE WriteLabel(
            WriteGoto(
              TranslateNode("Statements", 
                WriteIfGoto(
                  Write(TranslateNode("Expression", WriteLabel(counted, while_label1), expr), <<"n","o","t">>),
                  while_label2),
                statements),
              while_label1),
            while_label2)

\* TranslateIfStatement that jumps on the condition as it is.
TranslateIfStatementNoNot(w, node) ==
  LET expr == node.children[3]
      statements1 == node.children[6]
      statements2 == IF Len(node.children) = 7 THEN NonTerminalNode("StatementsNode", <<>>)
                     ELSE node.children[10]
      count == Str(w.subroutine_label_count)
      if_label1 == <<"I","f",".","1",".">> \o count
      if_label2 == <<"I","f",".","2",".">> \o count
      counted == [w EXCEPT !.subroutine_label_count = @ + 1]
  IN IF w.err # "" THEN w
     ELSE IF \/ expr.cls # "ExpressionNode"
             \/ statements1.cls # "StatementsNode"
             \/ statements2.cls # "StatementsNode"
     THEN Throw(w, "AssertionError")
     ELSE WriteLabel(
            TranslateNode("Statements", 
              WriteLabel(
                WriteGoto(
                  TranslateNode("Statements", 
                    WriteIfGoto(TranslateNode("Expression", counted, expr), if_label1),
                    statements1),
                  if_label2),
                if_label1),
              statements2),
            if_label2)

TranslateIfStatement(w, node) ==
  LET expr == node.children[3]
      statements1 == node.children[6]
      statements2 == IF Len(node.children) = 7 THEN NonTerminalNode("StatementsNode", <<>>)
                     ELSE node.children[10]
      count == Str(w.subroutine_label_count)
      if_label1 == <<"I","f",".","1",".">> \o count
      if_label2 == <<"I","f",".","2",".">> \o count
      counted == [w EXCEPT !.subroutine_label_count = @ + 1]
  IN IF w.err # "" THEN w
     ELSE IF \/ expr.cls # "ExpressionNode"
             \/ statements1.cls # "StatementsNode"
             \/ statements2.cls # "StatementsNode"
     THEN Throw(w, "AssertionError")
     ELSE WriteLabel(
            TranslateNode("Statements", 
              WriteLabel(
                WriteGoto(
                  TranslateNode("Statements", 
                    WriteIfGoto(Write(TranslateNode("Expression", counted, expr), <<"n","o","t">>), if_label1),
                    statements1),
                  if_label2),
                if_label1),
              statements2),
            if_label2)

TranslateStatement(w, child) ==
  IF w.err # "" THEN w
  ELSE IF child.cls = "LetStatementNode" THEN TranslateLetStatement(w, child)
  ELSE IF child.cls = "DoStatementNode" THEN TranslateDoStatement(w, child)
  ELSE IF child.cls = "ReturnStatementNode" THEN TranslateReturnStatement(w, child)
  ELSE IF child.cls = "WhileStatementNode" THEN TranslateWhileStatement(w, child)
  ELSE IF child.cls # "IfStatementNode" THEN Throw(w, "AssertionError")
  ELSE TranslateIfStatement(w, child)

TranslateStatementsFrom(w, children, k) ==
  IF w.err # "" \/ k > Len(children) THEN w
  ELSE TranslateStatementsFrom(TranslateStatement(w, children[k]), children, k + 1)

TranslateStatements(w, node) == TranslateStatementsFrom(w, node.children, 1)

TranslateNode(what, w, node) ==
  CASE what = "Expression" -> TranslateExpression(w, node)
    [] what = "Term" -> TranslateTerm(w, node)
    [] what = "SubroutineCall" -> TranslateSubroutineCall(w, node)
    [] what = "Statements" -> TranslateStatements(w, node)

(***************************************************************************)
(* main() of JackCompiler.py as a state machine.  pc is the position in    *)
(* main's loop and in the CodeWriter: Tokenize, CompileClass, CodeWriter,  *)
(* class (the loop of TranslateSyntaxTree), GetNumberOfLocals (line 163),  *)
(* statements (the loop of lines 179-181 at its top level); an exception   *)
(* nobody catches ends the run in pc = "error".                            *)
(***************************************************************************)
Unit(path, text) == [path |-> path, text |-> text]

Compilation(jack_files) ==
  [pc |-> "Tokenize", jack_files |-> jack_files, u |-> 1, tokens |-> <<>>,
   syntax_tree |-> NonTerminalNode("ClassNode", <<>>), w |-> NewCodeWriter,
   c |-> 1, s |-> 1, n_vars |-> 0, from |-> 0, written |-> <<>>, err |-> ""]

Abort(j, exc) == [j EXCEPT !.pc = "error", !.err = exc]

\* str(code_writer)
VMFileContent(w) ==
  IF w.output = <<>> THEN <<>> ELSE JoinLines(w.output) \o <<"\n">>

\* The next child of the class node from c on that is not a terminal node.
NextChild(j) ==
  LET children == j.syntax_tree.children
      at == {k \in j.c..Len(children) : children[k].cls \in {"ClassVarDecNode", "SubroutineDecNode"}}
  IN IF at = {} THEN Len(children) + 1 ELSE CHOOSE k \in at : \A m \in at : k <= m

\* The subroutine the CodeWriter is in, its body and its statements.
Subroutine(j) == j.syntax_tree.children[j.c]

SubroutineBody(j) == Subroutine(j).children[7]

BodyStatements(j) ==
  LET children == SubroutineBody(j).children
  IN children[CHOOSE k \in 1..Len(children) : children[k].cls = "StatementsNode"].children

\* AddLocalVariableSymbol for the varDec children of the body from k on.
RECURSIVE AddLocalsFrom(_, _, _)
AddLocalsFrom(w, children, k) ==
  IF w.err # "" \/ k > Len(children) THEN w
  ELSE IF children[k].cls = "VarDecNode"
  THEN AddLocalsFrom(AddLocalVariableSymbol(w, children[k]), children, k + 1)
  ELSE AddLocalsFrom(w, children, k + 1)

\* TranslateSubroutine, lines 154-162.
DeclareLocals(w, node) ==
  AddLocalsFrom([w EXCEPT !.subroutine_label_count = 0,
                          !.subroutine_name = NodeValue(node.children[3]),
                          !.subroutine_symbol_table = SymbolTable],
                node.children[7].children, 1)

SetupConstructor(w) ==
  WritePop(WriteCall(WritePush(w, <<"c","o","n","s","t","a","n","t">>, GetNumberOfFields(w.cls_symbol_table)),
                     <<"M","e","m","o","r","y">>, <<"a","l","l","o","c">>, 1),
           <<"p","o","i","n","t","e","r">>, 0)

\* TranslateSubroutine, lines 165-177, n_vars being what line 163 got.
WriteFunctionHead(w, node, n_vars) ==
  LET named == Write(w, <<"f","u","n","c","t","i","o","n"," ">> \o w.class_name \o <<".">> \o w.subroutine_name
                        \o <<" ">> \o Str(n_vars))
      set_up == IF node.children[1] = KeywordNode(<<"c","o","n","s","t","r","u","c","t","o","r">>)
                THEN SetupConstructor(named) ELSE named
      is_method == node.children[1] = KeywordNode(<<"m","e","t","h","o","d">>)
      this_set == IF is_method
                  THEN WritePop(WritePush(set_up, <<"a","r","g","u","m","e","n","t">>, 0), <<"p","o","i","n","t","e","r">>, 0)
                  ELSE set_up
  IN IF node.children[5].cls # "ParameterListNode" THEN Throw(this_set, "AssertionError")
     ELSE AddArgumentSymbols(this_set, node.children[5], is_method)

TokenizeUnit ==
  /\ jack.pc = "Tokenize"
  /\ LET lexed == Tokenize(jack.jack_files[jack.u].text)
     IN jack' = IF lexed.err # "" THEN Abort(jack, lexed.err)
                ELSE [jack EXCEPT !.tokens = lexed.tokens, !.pc = "CompileClass"]
  /\ UNCHANGED <<given, asm, vm, cpu>>

ParseUnit ==
  /\ jack.pc = "CompileClass"
  /\ LET parsed == CompileClass(jack.tokens)
     IN jack' = IF parsed.err # "" THEN Abort(jack, parsed.err)
                ELSE [jack EXCEPT !.syntax_tree = parsed.nodes[1], !.pc = "CodeWriter"]
  /\ UNCHANGED <<given, asm, vm, cpu>>

\* CodeWriter.__init__ and the first line of TranslateSyntaxTree.
CreateCodeWriter ==
  /\ jack.pc = "CodeWriter"
  /\ jack' = [jack EXCEPT
       !.w = [NewCodeWriter EXCEPT !.class_name = NodeValue(jack.syntax_tree.children[2])],
       !.c = 1, !.pc = "class"]
  /\ UNCHANGED <<given, asm, vm, cpu>>

AddClassSymbolStep ==
  /\ jack.pc = "class"
  /\ LET k == NextChild(jack)
     IN /\ k <= Len(jack.syntax_tree.children)
        /\ jack.syntax_tree.children[k].cls = "ClassVarDecNode"
        /\ LET w == AddClassSymbol(jack.w, jack.syntax_tree.children[k])
           IN jack' = IF w.err # "" THEN Abort([jack EXCEPT !.w = w], w.err)
                      ELSE [jack EXCEPT !.w = w, !.c = k + 1]
  /\ UNCHANGED <<given, asm, vm, cpu>>

BeginSubroutine ==
  /\ jack.pc = "class"
  /\ LET k == NextChild(jack)
     IN /\ k <= Len(jack.syntax_tree.children)
        /\ jack.syntax_tree.children[k].cls = "SubroutineDecNode"
        /\ LET w == IF jack.syntax_tree.children[k].children[7].cls # "SubroutineBodyNode"
                    THEN Throw(jack.w, "AssertionError")
                    ELSE DeclareLocals(jack.w, jack.syntax_tree.children[k])
           IN jack' = IF w.err # "" THEN Abort([jack EXCEPT !.w = w, !.c = k], w.err)
                      ELSE [jack EXCEPT !.w = w, !.c = k, !.pc = "GetNumberOfLocals"]
  /\ UNCHANGED <<given, asm, vm, cpu>>

\* Line 163 as it runs: SymbolTable has no attribute GetNumberOfLocals.
GetNumberOfLocalsMissing ==
  /\ jack.pc = "GetNumberOfLocals"
  /\ jack' = Abort(jack, "AttributeError")
  /\ UNCHANGED <<given, asm, vm, cpu>>

\* TranslateSubroutine from line 165 on, applied to the CodeWriter that
\* lines 154-162 left, for any number n_vars handed to line 165.
WriteFunction ==
  /\ jack.pc = "GetNumberOfLocals"
  /\ \E n_vars \in 0..MaxLocals :
       LET w == WriteFunctionHead(jack.w, Subroutine(jack), n_vars)
           named == [jack EXCEPT !.w = w, !.n_vars = n_vars]
       IN jack' = IF w.err # "" THEN Abort(named, w.err)
                  ELSE IF BodyStatements(jack) = <<>>
                  THEN [named EXCEPT !.c = @ + 1, !.pc = "class"]
                  ELSE [named EXCEPT !.s = 1, !.pc = "statements"]
  /\ UNCHANGED <<given, asm, vm, cpu>>

\* One iteration of the loop of TranslateStatements over the body; from
\* is the length of the output before it.
TranslateOneStatement ==
  /\ jack.pc = "statements"
  /\ LET w == TranslateStatement(jack.w, BodyStatements(jack)[jack.s])
         moved == [jack EXCEPT !.w = w, !.from = Len(jack.w.output)]
     IN jack' = IF w.err # "" THEN Abort(moved, w.err)
                ELSE IF jack.s < Len(BodyStatements(jack))
                THEN [moved EXCEPT !.s = @ + 1]
                ELSE [moved EXCEPT !.c = @ + 1, !.pc = "class"]
  /\ UNCHANGED <<given, asm, vm, cpu>>

\* The end of TranslateSyntaxTree, WriteVMFile and the next jack_file.
WriteVMFile ==
  /\ jack.pc = "class"
  /\ NextChild(jack) > Len(jack.syntax_tree.children)
  /\ jack' = [jack EXCEPT !.written = Append(@, VMFileContent(jack.w)),
                          !.u = @ + 1,
                          !.pc = IF jack.u < Len(jack.jack_files) THEN "Tokenize" ELSE "done"]
  /\ UNCHANGED <<given, asm, vm, cpu>>

(***************************************************************************)
(* Jack sources the compiler is run on.                                    *)
(***************************************************************************)
JackSubroutine(kind, type, name, params, var_decs, statements) ==
  <<kind \o <<" ">> \o type \o <<" ">> \o name \o <<"(">> \o params \o <<")"," ","{">>>>
  \o var_decs \o statements \o <<<<"}">>>>

JackClass(name, class_vars, subroutines) ==
  JoinLines(<<<<"c","l","a","s","s"," ">> \o name \o <<" ","{">>>> \o class_vars \o subroutines \o <<<<"}">>>>)

MainJack == <<"M","a","i","n",".","j","a","c","k">>

\* Statements of a method run(int a, Foo p) with locals Foo f, int v,
\* Array arr in a class with fields int x, Foo g and static Foo s.
StatementAlphabet ==
  {<<"l","e","t"," ","v"," ","="," ","7",";">>,
   <<"l","e","t"," ","x"," ","="," ","a"," ","+"," ","v",";">>,
   <<"l","e","t"," ","v"," ","="," ","-","a",";">>,
   <<"l","e","t"," ","a","r","r","[","v","]"," ","="," ","a",";">>,
   <<"l","e","t"," ","v"," ","="," ","a","r","r","[","2","]",";">>,
   <<"l","e","t"," ","v"," ","="," ","f",".","b","a","r","(","7",")",";">>,
   <<"l","e","t"," ","v"," ","="," ","(","a"," ","*"," ","2",")"," ","-"," ","x",";">>,
   <<"l","e","t"," ","f"," ","="," ","\"","h","i","\"",";">>,
   <<"l","e","t"," ","g"," ","="," ","t","h","i","s",";">>,
   <<"l","e","t"," ","v"," ","="," ","a"," ","<"," ","2",";">>,
   <<"d","o"," ","f",".","b","a","r","(","7",")",";">>,
   <<"r","e","t","u","r","n",";">>,
   <<"r","e","t","u","r","n"," ","v",";">>,
   <<"i","f"," ","(","v",")"," ","{"," ","l","e","t"," ","v"," ","="," ","1",";"," ","}"," ","e","l","s","e"," ","{"," ","l","e","t"," ","a","r","r","[","0","]"," ","="," ","2",";"," ","}">>,
   <<"i","f"," ","(","~","v",")"," ","{"," ","r","e","t","u","r","n"," ","a",";"," ","}">>,
   <<"w","h","i","l","e"," ","(","v",")"," ","{"," ","l","e","t"," ","v"," ","="," ","v"," ","-"," ","1",";"," ","}">>}

StatementUnit(statements) ==
  Unit(MainJack,
       JackClass(<<"M","a","i","n">>, <<<<"f","i","e","l","d"," ","i","n","t"," ","x",";">>, <<"s","t","a","t","i","c"," ","F","o","o"," ","s",";">>, <<"f","i","e","l","d"," ","F","o","o"," ","g",";">>>>,
                 JackSubroutine(<<"m","e","t","h","o","d">>, <<"v","o","i","d">>, <<"r","u","n">>, <<"i","n","t"," ","a",","," ","F","o","o"," ","p">>,
                                <<<<"v","a","r"," ","F","o","o"," ","f",";">>, <<"v","a","r"," ","i","n","t"," ","v",";">>, <<"v","a","r"," ","A","r","r","a","y"," ","a","r","r",";">>>>,
                                statements)))

StatementInputs ==
  {[kind |-> "statements", statements |-> statements,
    jack_files |-> <<StatementUnit(statements)>>] :
     statements \in SeqsUpTo(StatementAlphabet, MaxStmts)}

\* Array-indexed lets let arr[e1] = e2; in the method of StatementUnit:
\* each expression as written with the code it stands for.
IndexExpressions ==
  {[text |-> <<"0">>, code |-> <<<<"p","u","s","h"," ","c","o","n","s","t","a","n","t"," ","0">>>>],
   [text |-> <<"v">>, code |-> <<<<"p","u","s","h"," ","l","o","c","a","l"," ","1">>>>],
   [text |-> <<"a"," ","+"," ","1">>, code |-> <<<<"p","u","s","h"," ","a","r","g","u","m","e","n","t"," ","1">>, <<"p","u","s","h"," ","c","o","n","s","t","a","n","t"," ","1">>, <<"a","d","d">>>>]}

ValueExpressions ==
  {[text |-> <<"7">>, code |-> <<<<"p","u","s","h"," ","c","o","n","s","t","a","n","t"," ","7">>>>],
   [text |-> <<"a">>, code |-> <<<<"p","u","s","h"," ","a","r","g","u","m","e","n","t"," ","1">>>>],
   [text |-> <<"x">>, code |-> <<<<"p","u","s","h"," ","t","h","i","s"," ","0">>>>],
   [text |-> <<"a","r","r","[","2","]">>,
    code |-> <<<<"p","u","s","h"," ","l","o","c","a","l"," ","2">>, <<"p","u","s","h"," ","c","o","n","s","t","a","n","t"," ","2">>, <<"a","d","d">>, <<"p","o","p"," ","p","o","i","n","t","e","r"," ","1">>, <<"p","u","s","h"," ","t","h","a","t"," ","0">>>>]}

ArrayLetInputs ==
  {[kind |-> "arraylet", index |-> index, value |-> value,
    jack_files |-> <<StatementUnit(<<<<"l","e","t"," ","a","r","r","[">> \o index.text \o <<"]"," ","="," ">> \o value.text \o <<";">>>>)>>] :
     index \in IndexExpressions, value \in ValueExpressions}

\* Right-hand sides of let v = e; in the method of StatementUnit; chain
\* says that e holds a term followed by more than one (op term) pair
\* outside parentheses.
Expressions ==
  {[text |-> <<"a">>, chain |-> FALSE],
   [text |-> <<"a"," ","+"," ","v">>, chain |-> FALSE],
   [text |-> <<"(","a"," ","+"," ","v",")"," ","+"," ","x">>, chain |-> FALSE],
   [text |-> <<"a"," ","-"," ","(","v"," ","+"," ","x",")">>, chain |-> FALSE],
   [text |-> <<"-","a"," ","+"," ","v">>, chain |-> FALSE],
   [text |-> <<"a","r","r","[","a"," ","+"," ","v","]">>, chain |-> FALSE],
   [text |-> <<"f",".","b","a","r","(","a"," ","+"," ","v",","," ","x",")">>, chain |-> FALSE],
   [text |-> <<"a"," ","+"," ","v"," ","+"," ","x">>, chain |-> TRUE],
   [text |-> <<"a"," ","*"," ","v"," ","-"," ","x">>, chain |-> TRUE],
   [text |-> <<"a","r","r","[","a"," ","+"," ","v"," ","+"," ","x","]">>, chain |-> TRUE],
   [text |-> <<"f",".","b","a","r","(","a"," ","+"," ","v"," ","+"," ","x",")">>, chain |-> TRUE],
   [text |-> <<"(","a"," ","+"," ","v"," ","+"," ","x",")">>, chain |-> TRUE]}

ExpressionInputs ==
  {[kind |-> "expression", text |-> e.text, chain |-> e.chain,
    jack_files |-> <<StatementUnit(<<<<"l","e","t"," ","v"," ","="," ">> \o e.text \o <<";">>>>)>>] :
     e \in Expressions}

\* Parameter lists as written between the parentheses of a function:
\* the parameters they declare (type and name of each) when they follow
\* ( type varName (',' type varName)* )?, and whether they do.
ParameterLists ==
  {[text |-> <<>>, valid |-> TRUE, params |-> <<>>],
   [text |-> <<"i","n","t"," ","a">>, valid |-> TRUE, params |-> <<<<<<"i","n","t">>, <<"a">>>>>>],
   [text |-> <<"i","n","t"," ","a",","," ","F","o","o"," ","p">>, valid |-> TRUE, params |-> <<<<<<"i","n","t">>, <<"a">>>>, <<<<"F","o","o">>, <<"p">>>>>>],
   [text |-> <<"F","o","o"," ","p",","," ","b","o","o","l","e","a","n"," ","b",","," ","c","h","a","r"," ","c">>, valid |-> TRUE,
    params |-> <<<<<<"F","o","o">>, <<"p">>>>, <<<<"b","o","o","l","e","a","n">>, <<"b">>>>, <<<<"c","h","a","r">>, <<"c">>>>>>],
   [text |-> <<"i","n","t"," ","a"," ","F","o","o"," ","p">>, valid |-> FALSE, params |-> <<>>],
   [text |-> <<"i","n","t"," ","a",",">>, valid |-> FALSE, params |-> <<>>],
   [text |-> <<"i","n","t"," ","a",","," ","F","o","o"," ","p",",">>, valid |-> FALSE, params |-> <<>>],
   [text |-> <<"i","n","t"," ","a",",",","," ","F","o","o"," ","p">>, valid |-> FALSE, params |-> <<>>],
   [text |-> <<","," ","i","n","t"," ","a">>, valid |-> FALSE, params |-> <<>>],
   [text |-> <<"i","n","t"," ","7">>, valid |-> FALSE, params |-> <<>>],
   [text |-> <<"7"," ","a">>, valid |-> FALSE, params |-> <<>>]}

ParameterInputs ==
  {[kind |-> "parameters", text |-> list.text, valid |-> list.valid, params |-> list.params,
    jack_files |-> <<Unit(MainJack,
                          JackClass(<<"M","a","i","n">>, <<>>,
                                    JackSubroutine(<<"f","u","n","c","t","i","o","n">>, <<"v","o","i","d">>, <<"m","a","i","n">>, list.text,
                                                   <<>>, <<<<"r","e","t","u","r","n",";">>>>)))>>] :
     list \in ParameterLists}

\* A class with the fields x, z and the static y and two methods:
\* one(int p) with the locals x, q reads a name into q, two(int y) with
\* the local r reads a name into r.  push is the line the name stands
\* for where it is read, none where the name is declared in neither the
\* method nor the class.
NamesInOne ==
  {[name |-> <<"x">>, push |-> <<<<"p","u","s","h"," ","l","o","c","a","l"," ","0">>>>],
   [name |-> <<"q">>, push |-> <<<<"p","u","s","h"," ","l","o","c","a","l"," ","1">>>>],
   [name |-> <<"p">>, push |-> <<<<"p","u","s","h"," ","a","r","g","u","m","e","n","t"," ","1">>>>],
   [name |-> <<"z">>, push |-> <<<<"p","u","s","h"," ","t","h","i","s"," ","1">>>>],
   [name |-> <<"y">>, push |-> <<<<"p","u","s","h"," ","s","t","a","t","i","c"," ","0">>>>],
   [name |-> <<"r">>, push |-> <<>>],
   [name |-> <<"u">>, push |-> <<>>]}

NamesInTwo ==
  {[name |-> <<"x">>, push |-> <<<<"p","u","s","h"," ","t","h","i","s"," ","0">>>>],
   [name |-> <<"y">>, push |-> <<<<"p","u","s","h"," ","a","r","g","u","m","e","n","t"," ","1">>>>],
   [name |-> <<"r">>, push |-> <<<<"p","u","s","h"," ","l","o","c","a","l"," ","0">>>>],
   [name |-> <<"z">>, push |-> <<<<"p","u","s","h"," ","t","h","i","s"," ","1">>>>],
   [name |-> <<"q">>, push |-> <<>>],
   [name |-> <<"p">>, push |-> <<>>]}

ScopeInputs ==
  {[kind |-> "scope", one |-> one, two |-> two,
    jack_files |-> <<Unit(MainJack,
                          JackClass(<<"M","a","i","n">>, <<<<"f","i","e","l","d"," ","i","n","t"," ","x",","," ","z",";">>, <<"s","t","a","t","i","c"," ","i","n","t"," ","y",";">>>>,
                                    JackSubroutine(<<"m","e","t","h","o","d">>, <<"v","o","i","d">>, <<"o","n","e">>, <<"i","n","t"," ","p">>,
                                                   <<<<"v","a","r"," ","i","n","t"," ","x",","," ","q",";">>>>,
                                                   <<<<"l","e","t"," ","q"," ","="," ">> \o one.name \o <<";">>, <<"r","e","t","u","r","n",";">>>>)
                                    \o JackSubroutine(<<"m","e","t","h","o","d">>, <<"v","o","i","d">>, <<"t","w","o">>, <<"i","n","t"," ","y">>,
                                                      <<<<"v","a","r"," ","i","n","t"," ","r",";">>>>,
                                                      <<<<"l","e","t"," ","r"," ","="," ">> \o two.name \o <<";">>,
                                                        <<"r","e","t","u","r","n",";">>>>)))>>] :
     one \in NamesInOne, two \in NamesInTwo}

\* If and while statements, one after the other and one inside the other,
\* in the two functions of a class.
ControlStatements ==
  {<<"w","h","i","l","e"," ","(","v",")"," ","{"," ","l","e","t"," ","v"," ","="," ","1",";"," ","}">>,
   <<"i","f"," ","(","v",")"," ","{"," ","l","e","t"," ","v"," ","="," ","1",";"," ","}">>,
   <<"i","f"," ","(","v",")"," ","{"," ","l","e","t"," ","v"," ","="," ","1",";"," ","}"," ","e","l","s","e"," ","{"," ","l","e","t"," ","v"," ","="," ","2",";"," ","}">>,
   <<"w","h","i","l","e"," ","(","v",")"," ","{"," ","i","f"," ","(","v",")"," ","{"," ","l","e","t"," ","v"," ","="," ","1",";"," ","}"," ","}">>,
   <<"w","h","i","l","e"," ","(","v",")"," ","{"," ","w","h","i","l","e"," ","(","v",")"," ","{"," ","l","e","t"," ","v"," ","="," ","1",";"," ","}"," ","l","e","t"," ","v"," ","="," ","2",";"," ","}">>,
   <<"i","f"," ","(","v",")"," ","{"," ","w","h","i","l","e"," ","(","v",")"," ","{"," ","l","e","t"," ","v"," ","="," ","1",";"," ","}"," ","}"," ","e","l","s","e"," ","{"," ","i","f"," ","(","v",")"," ","{"," ","l","e","t"," ","v"," ","="," ","2",";"," ","}"," ","}">>}

ControlInputs ==
  {[kind |-> "control", one |-> one, two |-> two,
    jack_files |-> <<Unit(MainJack,
                          JackClass(<<"M","a","i","n">>, <<>>,
                                    JackSubroutine(<<"f","u","n","c","t","i","o","n">>, <<"v","o","i","d">>, <<"o","n","e">>, <<>>,
                                                   <<<<"v","a","r"," ","i","n","t"," ","v",";">>>>, one)
                                    \o JackSubroutine(<<"f","u","n","c","t","i","o","n">>, <<"v","o","i","d">>, <<"t","w","o">>, <<>>,
                                                      <<<<"v","a","r"," ","i","n","t"," ","v",";">>>>, <<two>>)))>>] :
     one \in SeqsUpTo(ControlStatements, 2) \ {<<>>}, two \in ControlStatements}

\* let v = a op x; in the method of StatementUnit for every binary operator
\* of Jack, with the VM command the operator stands for.
Operators ==
  {[symbol |-> "+", vm |-> <<"a","d","d">>], [symbol |-> "-", vm |-> <<"s","u","b">>],
   [symbol |-> "*", vm |-> <<"c","a","l","l"," ","M","a","t","h",".","m","u","l","t","i","p","l","y"," ","2">>],
   [symbol |-> "/", vm |-> <<"c","a","l","l"," ","M","a","t","h",".","d","i","v","i","d","e"," ","2">>],
   [symbol |-> "&", vm |-> <<"a","n","d">>], [symbol |-> "|", vm |-> <<"o","r">>],
   [symbol |-> "<", vm |-> <<"l","t">>], [symbol |-> ">", vm |-> <<"g","t">>],
   [symbol |-> "=", vm |-> <<"e","q">>]}

OperatorInputs ==
  {[kind |-> "operator", symbol |-> op.symbol, vm |-> op.vm,
    jack_files |-> <<StatementUnit(<<<<"l","e","t"," ","v"," ","="," ","a"," ">> \o <<op.symbol>> \o <<" ","x",";">>>>)>>] :
     op \in Operators}

\* Statements with comments and string constants in a function with the
\* locals f and v: the lines as written, the same lines without their
\* comments, and the text between the quotes of the string constant of the
\* lines, if they have one.  plain says that no comment mark stands inside
\* a string constant or inside a line comment.
CommentedLines ==
  {[lines |-> <<<<"l","e","t"," ","f"," ","="," ","\"","a","b","\"",";"," ","/","/"," ","c">>>>, clean |-> <<<<"l","e","t"," ","f"," ","="," ","\"","a","b","\"",";">>>>,
    payload |-> <<"a","b">>, plain |-> TRUE],
   [lines |-> <<<<"l","e","t"," ","v"," ","="," ","1",";"," ","/","*"," ","c"," ","*","/"," ","l","e","t"," ","v"," ","="," ","2",";">>>>, clean |-> <<<<"l","e","t"," ","v"," ","="," ","1",";"," "," ","l","e","t"," ","v"," ","="," ","2",";">>>>,
    payload |-> <<>>, plain |-> TRUE],
   [lines |-> <<<<"/","*"," ","a">>, <<"b"," ","*","/"," ","l","e","t"," ","v"," ","="," ","1",";"," ","/","/"," ","c">>>>, clean |-> <<<<"l","e","t"," ","v"," ","="," ","1",";">>>>,
    payload |-> <<>>, plain |-> TRUE],
   [lines |-> <<<<"l","e","t"," ","f"," ","="," ","\"","a","/","/","b","\"",";">>>>, clean |-> <<>>, payload |-> <<"a","/","/","b">>, plain |-> FALSE],
   [lines |-> <<<<"l","e","t"," ","f"," ","="," ","\"","a","/","*","b","\"",";">>>>, clean |-> <<>>, payload |-> <<"a","/","*","b">>, plain |-> FALSE],
   [lines |-> <<<<"l","e","t"," ","f"," ","="," ","\"","a","/","*","b","*","/","c","\"",";">>>>, clean |-> <<>>, payload |-> <<"a","/","*","b","*","/","c">>, plain |-> FALSE],
   [lines |-> <<<<"l","e","t"," ","v"," ","="," ","1",";"," ","/","/"," ","x"," ","/","*"," ","y">>, <<"l","e","t"," ","v"," ","="," ","2",";">>>>,
    clean |-> <<<<"l","e","t"," ","v"," ","="," ","1",";">>, <<"l","e","t"," ","v"," ","="," ","2",";">>>>, payload |-> <<>>, plain |-> FALSE],
   [lines |-> <<<<"l","e","t"," ","v"," ","="," ","1",";"," ","/","/"," ","x"," ","/","*"," ","y">>, <<"l","e","t"," ","v"," ","="," ","2",";"," ","/","/"," ","z"," ","*","/"," ","w">>>>,
    clean |-> <<<<"l","e","t"," ","v"," ","="," ","1",";">>, <<"l","e","t"," ","v"," ","="," ","2",";">>>>, payload |-> <<>>, plain |-> FALSE]}

CommentUnit(lines) ==
  Unit(MainJack,
       JackClass(<<"M","a","i","n">>, <<<<"s","t","a","t","i","c"," ","i","n","t"," ","s",";">>>>,
                 JackSubroutine(<<"f","u","n","c","t","i","o","n">>, <<"v","o","i","d">>, <<"m","a","i","n">>, <<>>,
                                <<<<"v","a","r"," ","S","t","r","i","n","g"," ","f",";">>, <<"v","a","r"," ","i","n","t"," ","v",";">>>>, lines)))

CommentInputs ==
  {[kind |-> "comment", lines |-> c.lines, clean |-> c.clean, payload |-> c.payload,
    plain |-> c.plain, jack_files |-> <<CommentUnit(c.lines)>>] :
     c \in CommentedLines}

\* A qualified or unqualified call in the method of StatementUnit: the
\* receiver as written, the push the receiver stands for (none when it is
\* no variable) and the class the call goes to.
Receivers ==
  {[name |-> <<"f">>, push |-> <<<<"p","u","s","h"," ","l","o","c","a","l"," ","0">>>>, cls |-> <<"F","o","o">>],
   [name |-> <<"p">>, push |-> <<<<"p","u","s","h"," ","a","r","g","u","m","e","n","t"," ","2">>>>, cls |-> <<"F","o","o">>],
   [name |-> <<"g">>, push |-> <<<<"p","u","s","h"," ","t","h","i","s"," ","1">>>>, cls |-> <<"F","o","o">>],
   [name |-> <<"s">>, push |-> <<<<"p","u","s","h"," ","s","t","a","t","i","c"," ","0">>>>, cls |-> <<"F","o","o">>],
   [name |-> <<"a","r","r">>, push |-> <<<<"p","u","s","h"," ","l","o","c","a","l"," ","2">>>>, cls |-> <<"A","r","r","a","y">>],
   [name |-> <<"F","o","o">>, push |-> <<>>, cls |-> <<"F","o","o">>],
   [name |-> <<"M","a","t","h">>, push |-> <<>>, cls |-> <<"M","a","t","h">>],
   [name |-> <<>>, push |-> <<<<"p","u","s","h"," ","p","o","i","n","t","e","r"," ","0">>>>, cls |-> <<"M","a","i","n">>]}

\* An argument as written and the code of its expression.
Arguments ==
  {[text |-> <<"7">>, code |-> <<"p","u","s","h"," ","c","o","n","s","t","a","n","t"," ","7">>],
   [text |-> <<"a">>, code |-> <<"p","u","s","h"," ","a","r","g","u","m","e","n","t"," ","1">>],
   [text |-> <<"v">>, code |-> <<"p","u","s","h"," ","l","o","c","a","l"," ","1">>],
   [text |-> <<"x">>, code |-> <<"p","u","s","h"," ","t","h","i","s"," ","0">>]}

RECURSIVE CommaSeparated(_)
CommaSeparated(texts) ==
  IF texts = <<>> THEN <<>>
  ELSE IF Len(texts) = 1 THEN texts[1]
  ELSE texts[1] \o <<","," ">> \o CommaSeparated(Tail(texts))

CallText(receiver, args) ==
  (IF receiver.name = <<>> THEN <<>> ELSE receiver.name \o <<".">>)
  \o <<"b","a","r","(">> \o CommaSeparated([k \in 1..Len(args) |-> args[k].text]) \o <<")">>

JackCallInputs ==
  {[kind |-> "call", receiver |-> receiver, args |-> args,
    jack_files |-> <<StatementUnit(<<<<"l","e","t"," ","v"," ","="," ">> \o CallText(receiver, args) \o <<";">>>>)>>] :
     receiver \in Receivers, args \in SeqsUpTo(Arguments, MaxArgs)}

\* Classes of one or two subroutines: the class variables with the number
\* of fields among them, each subroutine with the number of its locals.
ClassVariables ==
  {[lines |-> <<>>, n_fields |-> 0],
   [lines |-> <<<<"f","i","e","l","d"," ","i","n","t"," ","x",";">>>>, n_fields |-> 1],
   [lines |-> <<<<"s","t","a","t","i","c"," ","i","n","t"," ","z",";">>, <<"f","i","e","l","d"," ","i","n","t"," ","x",","," ","y",";">>>>, n_fields |-> 2],
   [lines |-> <<<<"f","i","e","l","d"," ","F","o","o"," ","g",";">>, <<"s","t","a","t","i","c"," ","F","o","o"," ","s",","," ","t",";">>, <<"f","i","e","l","d"," ","i","n","t"," ","x",","," ","y",";">>>>, n_fields |-> 3]}

SubroutineShapes ==
  {[kind |-> kind, params |-> params, var_decs |-> decs.lines, n_locals |-> decs.n] :
     kind \in {<<"c","o","n","s","t","r","u","c","t","o","r">>, <<"m","e","t","h","o","d">>, <<"f","u","n","c","t","i","o","n">>},
     params \in {<<>>, <<"i","n","t"," ","a",","," ","F","o","o"," ","p">>},
     decs \in {[lines |-> <<>>, n |-> 0],
               [lines |-> <<<<"v","a","r"," ","F","o","o"," ","f",";">>, <<"v","a","r"," ","i","n","t"," ","i",","," ","j",";">>>>, n |-> 3]}}

SubroutineName(k) == IF k = 1 THEN <<"o","n","e">> ELSE <<"t","w","o">>

RECURSIVE SubroutineLines(_, _)
SubroutineLines(shapes, k) ==
  IF k > Len(shapes) THEN <<>>
  ELSE JackSubroutine(shapes[k].kind,
                      IF shapes[k].kind = <<"c","o","n","s","t","r","u","c","t","o","r">> THEN <<"M","a","i","n">> ELSE <<"v","o","i","d">>,
                      SubroutineName(k), shapes[k].params, shapes[k].var_decs,
                      <<IF shapes[k].kind = <<"c","o","n","s","t","r","u","c","t","o","r">> THEN <<"r","e","t","u","r","n"," ","t","h","i","s",";">> ELSE <<"r","e","t","u","r","n",";">>>>)
       \o SubroutineLines(shapes, k + 1)

SubroutineInputs ==
  {[kind |-> "subroutines", class_vars |-> class_vars, shapes |-> shapes,
    jack_files |-> <<Unit(MainJack,
                          JackClass(<<"M","a","i","n">>, class_vars.lines, SubroutineLines(shapes, 1)))>>] :
     class_vars \in ClassVariables,
     shapes \in {s \in SeqsUpTo(SubroutineShapes, 2) :
                   /\ s # <<>>
                   /\ Len(s) = 2 => (s[1].kind = <<"c","o","n","s","t","r","u","c","t","o","r">> \/ s[2].kind = <<"c","o","n","s","t","r","u","c","t","o","r">>)}}

\* The do statement of a function with the local Foo f, and the code the
\* call stands for.
DoInputs ==
  {[kind |-> "do", expected |-> call.code,
    jack_files |-> <<Unit(MainJack,
                          JackClass(<<"M","a","i","n">>, <<>>,
                                    JackSubroutine(<<"f","u","n","c","t","i","o","n">>, <<"v","o","i","d">>, <<"m","a","i","n">>, <<>>,
                                                   <<<<"v","a","r"," ","F","o","o"," ","f",";">>>>, <<call.text>>)))>>] :
     call \in {[text |-> <<"d","o"," ","f",".","b","a","r","(","7",")",";">>,
                code |-> <<<<"p","u","s","h"," ","l","o","c","a","l"," ","0">>, <<"p","u","s","h"," ","c","o","n","s","t","a","n","t"," ","7">>, <<"c","a","l","l"," ","F","o","o",".","b","a","r"," ","2">>, <<"p","o","p"," ","t","e","m","p"," ","0">>>>],
               [text |-> <<"d","o"," ","b","a","r","(","7",","," ","8",")",";">>,
                code |-> <<<<"p","u","s","h"," ","p","o","i","n","t","e","r"," ","0">>, <<"p","u","s","h"," ","c","o","n","s","t","a","n","t"," ","7">>, <<"p","u","s","h"," ","c","o","n","s","t","a","n","t"," ","8">>,
                           <<"c","a","l","l"," ","M","a","i","n",".","b","a","r"," ","3">>, <<"p","o","p"," ","t","e","m","p"," ","0">>>>]}}

\* A function whose statement assigns the integer constant written as
\* digits.
IntegerInputs ==
  {[kind |-> "integer", digits |-> digits,
    jack_files |-> <<Unit(MainJack,
                          JackClass(<<"M","a","i","n">>, <<>>,
                                    JackSubroutine(<<"f","u","n","c","t","i","o","n">>, <<"v","o","i","d">>, <<"m","a","i","n">>, <<>>,
                                                   <<<<"v","a","r"," ","i","n","t"," ","v",";">>>>,
                                                   <<<<"l","e","t"," ","v"," ","="," ">> \o digits \o <<";">>>>)))>>] :
     digits \in {<<"0">>, <<"7">>, <<"3","2","7","6","7">>, <<"3","2","7","6","8">>, <<"4","0","0","0","0">>, <<"6","5","5","3","6">>}}

\* Units of a directory: valid says whether the source is Jack without
\* any error.
GoodUnit(name) ==
  [path |-> name \o <<".","j","a","c","k">>, valid |-> TRUE,
   text |-> JackClass(name, <<<<"f","i","e","l","d"," ","i","n","t"," ","x",";">>>>,
                      JackSubroutine(<<"f","u","n","c","t","i","o","n">>, <<"i","n","t">>, <<"g","e","t">>, <<>>, <<>>, <<<<"r","e","t","u","r","n"," ","7",";">>>>))]

BadUnits ==
  {[path |-> <<"B","a","d",".","j","a","c","k">>, valid |-> FALSE, text |-> <<"c","l","a","s","s"," ","B","a","d"," ","{"," ","/","*"," ","n","o"," ","e","n","d"," ","}">>],
   [path |-> <<"B","a","d",".","j","a","c","k">>, valid |-> FALSE,
    text |-> JackClass(<<"B","a","d">>, <<>>,
                       JackSubroutine(<<"f","u","n","c","t","i","o","n">>, <<"v","o","i","d">>, <<"f">>, <<>>, <<>>, <<<<"l","e","t"," ","1","x"," ","="," ","2",";">>>>))],
   [path |-> <<"B","a","d",".","j","a","c","k">>, valid |-> FALSE,
    text |-> JackClass(<<"B","a","d">>, <<>>,
                       JackSubroutine(<<"f","u","n","c","t","i","o","n">>, <<"v","o","i","d">>, <<"f">>, <<>>, <<>>, <<<<"l","e","t"," ","="," ","2",";">>>>))],
   [path |-> <<"B","a","d",".","j","a","c","k">>, valid |-> FALSE,
    text |-> JackClass(<<"B","a","d">>, <<>>,
                       JackSubroutine(<<"f","u","n","c","t","i","o","n">>, <<"v","o","i","d">>, <<"f">>, <<>>, <<>>, <<<<"l","e","t"," ","y"," ","="," ","2",";">>>>))]}

UnitInputs ==
  {[kind |-> "units", jack_files |-> files] :
     files \in {<<GoodUnit(<<"M","a","i","n">>), bad>> : bad \in BadUnits}
               \cup {<<bad, GoodUnit(<<"M","a","i","n">>)>> : bad \in BadUnits}
               \cup {<<GoodUnit(<<"M","a","i","n">>), GoodUnit(<<"O","t","h","e","r">>)>>,
                     <<GoodUnit(<<"O","t","h","e","r">>), GoodUnit(<<"M","a","i","n">>)>>,
                     <<GoodUnit(<<"O","t","h","e","r">>)>>}}

JackInputs ==
  StatementInputs \cup JackCallInputs \cup SubroutineInputs \cup DoInputs
  \cup IntegerInputs \cup UnitInputs \cup ArrayLetInputs \cup ExpressionInputs \cup ParameterInputs \cup ScopeInputs \cup ControlInputs \cup OperatorInputs \cup CommentInputs

\* ParseJackFilePathsFromArguments for a directory and the start of main's
\* loop: a directory without Main.jack is refused.
CompilerMain(g) ==
  IF ~\E k \in 1..Len(g.jack_files) : g.jack_files[k].path = MainJack
  THEN Abort(Compilation(g.jack_files), "InvalidInputError")
  ELSE Compilation(g.jack_files)

InitCompile ==
  /\ given \in JackInputs
  /\ jack = CompilerMain(given)
  /\ asm = NoAssembler
  /\ vm = NoTranslation
  /\ cpu = NoComputer

\* The compiler as it runs.
NextCompile ==
  \/ TokenizeUnit \/ ParseUnit \/ CreateCodeWriter \/ AddClassSymbolStep
  \/ BeginSubroutine \/ GetNumberOfLocalsMissing

SpecCompile == InitCompile /\ [][NextCompile]_vars

\* The methods of the CodeWriter applied past line 163: the function head
\* and the statements of every subroutine, for any number of locals handed
\* to line 165.
NextWriter ==
  \/ TokenizeUnit \/ ParseUnit \/ CreateCodeWriter \/ AddClassSymbolStep
  \/ BeginSubroutine \/ WriteFunction \/ TranslateOneStatement \/ WriteVMFile

SpecWriter == InitCompile /\ [][NextWriter]_vars

(***************************************************************************)
(* The VM translator run on the .vm file the compiler wrote, and the code  *)
(* it gives run on the Hack computer: TranslateVMFiletoASM reads the file  *)
(* through PreprocessInput and takes the operation, the segment or name    *)
(* and the number from the words of each line.                             *)
(***************************************************************************)
\* line.split(): the words between runs of whitespace.
RECURSIVE SplitWords(_, _, _)
SplitWords(line, k, cur) ==
  IF k > Len(line) THEN IF cur = <<>> THEN <<>> ELSE <<cur>>
  ELSE IF line[k] \in Whitespace \cup {"\n"}
  THEN (IF cur = <<>> THEN <<>> ELSE <<cur>>) \o SplitWords(line, k + 1, <<>>)
  ELSE SplitWords(line, k + 1, Append(cur, line[k]))

\* PreprocessInput of the translator: the words of every line that is
\* not empty once its comment is cut off.
VMPreprocessInput(file_content) ==
  LET ls == SplitLines(file_content)
      words == [k \in 1..Len(ls) |-> SplitWords(StripComment(ls[k]), 1, <<>>)]
  IN SelectSeq(words, LAMBDA w : w # <<>>)

\* The operations and segments of the VM language as the translator
\* compares them.
VMWords ==
  {"push", "pop", "add", "sub", "and", "or", "neg", "not", "eq", "lt", "gt",
   "label", "goto", "if-goto", "function", "call", "return",
   "constant", "temp", "static", "pointer", "local", "argument", "this", "that"}

Spelled(word) ==
  CASE word = "push" -> <<"p","u","s","h">> [] word = "pop" -> <<"p","o","p">> [] word = "add" -> <<"a","d","d">>
    [] word = "sub" -> <<"s","u","b">> [] word = "and" -> <<"a","n","d">> [] word = "or" -> <<"o","r">>
    [] word = "neg" -> <<"n","e","g">> [] word = "not" -> <<"n","o","t">> [] word = "eq" -> <<"e","q">>
    [] word = "lt" -> <<"l","t">> [] word = "gt" -> <<"g","t">> [] word = "label" -> <<"l","a","b","e","l">>
    [] word = "goto" -> <<"g","o","t","o">> [] word = "if-goto" -> <<"i","f","-","g","o","t","o">>
    [] word = "function" -> <<"f","u","n","c","t","i","o","n">> [] word = "call" -> <<"c","a","l","l">>
    [] word = "return" -> <<"r","e","t","u","r","n">> [] word = "constant" -> <<"c","o","n","s","t","a","n","t">>
    [] word = "temp" -> <<"t","e","m","p">> [] word = "static" -> <<"s","t","a","t","i","c">>
    [] word = "pointer" -> <<"p","o","i","n","t","e","r">> [] word = "local" -> <<"l","o","c","a","l">>
    [] word = "argument" -> <<"a","r","g","u","m","e","n","t">> [] word = "this" -> <<"t","h","i","s">>
    [] word = "that" -> <<"t","h","a","t">>

\* The operation or segment a word of a line spells, "" when none.
WordOf(chars) ==
  IF \E word \in VMWords : Spelled(word) = chars
  THEN CHOOSE word \in VMWords : Spelled(word) = chars
  ELSE ""

\* tokens[0], tokens[1] and int(tokens[2]) as the loop of
\* TranslateVMFiletoASM reads them from the words of a line; the lines
\* are those of the CodeWriter, none of which lacks a word.
CommandOf(tokens) ==
  LET op == WordOf(tokens[1])
  IN IF op \in {"push", "pop"} THEN Cmd(op, WordOf(tokens[2]), <<>>, ParseInt(tokens[3]))
     ELSE IF op \in {"label", "goto", "if-goto"} THEN Cmd(op, "", tokens[2], 0)
     ELSE IF op \in {"function", "call"} THEN Cmd(op, "", tokens[2], ParseInt(tokens[3]))
     ELSE Cmd(op, "", <<>>, 0)

VMCommands(file_content) ==
  LET vm_tokens == VMPreprocessInput(file_content)
  IN [k \in 1..Len(vm_tokens) |-> CommandOf(vm_tokens[k])]

\* jack_file_path.replace('.jack', '.vm') for a path that ends in .jack.
VMPath(jack_file_path) ==
  SubSeq(jack_file_path, 1, Len(jack_file_path) - 5) \o <<".","v","m">>

\* VMTranslator.py is run on the file the compiler wrote.
TranslateVMFile ==
  /\ jack.pc = "done"
  /\ vm.pc = "idle"
  /\ vm' = Main([mode |-> "file",
                 files |-> <<File(VMPath(jack.jack_files[1].path),
                                  VMCommands(jack.written[1]))>>])
  /\ UNCHANGED <<given, asm, cpu, jack>>

(***************************************************************************)
(* Compiled code that is run.  The function run(int c) of class Main has   *)
(* the locals n and m; it is entered with SP above its locals, c in        *)
(* argument 0 and n = m = 0, and the computer halts at the end of its      *)
(* code.                                                                   *)
(***************************************************************************)
RunUnit(statements) ==
  Unit(MainJack,
       JackClass(<<"M","a","i","n">>, <<<<"s","t","a","t","i","c"," ","i","n","t"," ","s",";">>>>,
                 JackSubroutine(<<"f","u","n","c","t","i","o","n">>, <<"v","o","i","d">>, <<"r","u","n">>, <<"i","n","t"," ","c">>,
                                <<<<"v","a","r"," ","i","n","t"," ","n",","," ","m",";">>>>, statements)))

\* SP, LCL, ARG, THIS, THAT and argument 0.
RunRam(c) == (0 :> 310) @@ (1 :> 300) @@ (2 :> 400) @@ (3 :> 3000) @@ (4 :> 3010) @@ (400 :> c)

RunLabel(label) == <<"M","a","i","n",".","r","u","n",".">> \o label

\* If and while statements on the condition c, the lines they are to be
\* compiled to, and the values of n and m after the statement where c is
\* true and where it is false.
Branches ==
  {[text |-> <<"w","h","i","l","e"," ","(","c",")"," ","{"," ","l","e","t"," ","n"," ","="," ","n"," ","+"," ","1",";"," ","l","e","t"," ","c"," ","="," ","0",";"," ","}">>,
    code |-> <<<<"l","a","b","e","l"," ">> \o RunLabel(<<"W","h","i","l","e",".","1",".","0">>), <<"p","u","s","h"," ","a","r","g","u","m","e","n","t"," ","0">>, <<"n","o","t">>,
               <<"i","f","-","g","o","t","o"," ">> \o RunLabel(<<"W","h","i","l","e",".","2",".","0">>),
               <<"p","u","s","h"," ","l","o","c","a","l"," ","0">>, <<"p","u","s","h"," ","c","o","n","s","t","a","n","t"," ","1">>, <<"a","d","d">>, <<"p","o","p"," ","l","o","c","a","l"," ","0">>,
               <<"p","u","s","h"," ","c","o","n","s","t","a","n","t"," ","0">>, <<"p","o","p"," ","a","r","g","u","m","e","n","t"," ","0">>,
               <<"g","o","t","o"," ">> \o RunLabel(<<"W","h","i","l","e",".","1",".","0">>), <<"l","a","b","e","l"," ">> \o RunLabel(<<"W","h","i","l","e",".","2",".","0">>)>>,
    true |-> <<1, 0>>, false |-> <<0, 0>>],
   [text |-> <<"w","h","i","l","e"," ","(","c",")"," ","{"," ","l","e","t"," ","n"," ","="," ","n"," ","+"," ","1",";"," ","l","e","t"," ","c"," ","="," ","~","(","n"," ","="," ","3",")",";"," ","}">>,
    code |-> <<<<"l","a","b","e","l"," ">> \o RunLabel(<<"W","h","i","l","e",".","1",".","0">>), <<"p","u","s","h"," ","a","r","g","u","m","e","n","t"," ","0">>, <<"n","o","t">>,
               <<"i","f","-","g","o","t","o"," ">> \o RunLabel(<<"W","h","i","l","e",".","2",".","0">>),
               <<"p","u","s","h"," ","l","o","c","a","l"," ","0">>, <<"p","u","s","h"," ","c","o","n","s","t","a","n","t"," ","1">>, <<"a","d","d">>, <<"p","o","p"," ","l","o","c","a","l"," ","0">>,
               <<"p","u","s","h"," ","l","o","c","a","l"," ","0">>, <<"p","u","s","h"," ","c","o","n","s","t","a","n","t"," ","3">>, <<"e","q">>, <<"n","o","t">>, <<"p","o","p"," ","a","r","g","u","m","e","n","t"," ","0">>,
               <<"g","o","t","o"," ">> \o RunLabel(<<"W","h","i","l","e",".","1",".","0">>), <<"l","a","b","e","l"," ">> \o RunLabel(<<"W","h","i","l","e",".","2",".","0">>)>>,
    true |-> <<3, 0>>, false |-> <<0, 0>>],
   [text |-> <<"i","f"," ","(","c",")"," ","{"," ","l","e","t"," ","n"," ","="," ","1",";"," ","}"," ","e","l","s","e"," ","{"," ","l","e","t"," ","m"," ","="," ","2",";"," ","}">>,
    code |-> <<<<"p","u","s","h"," ","a","r","g","u","m","e","n","t"," ","0">>, <<"n","o","t">>, <<"i","f","-","g","o","t","o"," ">> \o RunLabel(<<"I","f",".","1",".","0">>),
               <<"p","u","s","h"," ","c","o","n","s","t","a","n","t"," ","1">>, <<"p","o","p"," ","l","o","c","a","l"," ","0">>,
               <<"g","o","t","o"," ">> \o RunLabel(<<"I","f",".","2",".","0">>), <<"l","a","b","e","l"," ">> \o RunLabel(<<"I","f",".","1",".","0">>),
               <<"p","u","s","h"," ","c","o","n","s","t","a","n","t"," ","2">>, <<"p","o","p"," ","l","o","c","a","l"," ","1">>,
               <<"l","a","b","e","l"," ">> \o RunLabel(<<"I","f",".","2",".","0">>)>>,
    true |-> <<1, 0>>, false |-> <<0, 2>>],
   [text |-> <<"i","f"," ","(","c",")"," ","{"," ","l","e","t"," ","n"," ","="," ","1",";"," ","}">>,
    code |-> <<<<"p","u","s","h"," ","a","r","g","u","m","e","n","t"," ","0">>, <<"n","o","t">>, <<"i","f","-","g","o","t","o"," ">> \o RunLabel(<<"I","f",".","1",".","0">>),
               <<"p","u","s","h"," ","c","o","n","s","t","a","n","t"," ","1">>, <<"p","o","p"," ","l","o","c","a","l"," ","0">>,
               <<"g","o","t","o"," ">> \o RunLabel(<<"I","f",".","2",".","0">>), <<"l","a","b","e","l"," ">> \o RunLabel(<<"I","f",".","1",".","0">>),
               <<"l","a","b","e","l"," ">> \o RunLabel(<<"I","f",".","2",".","0">>)>>,
    true |-> <<1, 0>>, false |-> <<0, 0>>]}

\* true is -1 and false is 0.
BranchInputs ==
  {[kind |-> "branch", text |-> b.text, code |-> b.code, c |-> c,
    n |-> IF c = 0 THEN b.false[1] ELSE b.true[1],
    m |-> IF c = 0 THEN b.false[2] ELSE b.true[2],
    jack_files |-> <<RunUnit(<<b.text>>)>>, ram |-> RunRam(c)] :
     b \in Branches, c \in {0, WordMod - 1}}

ExecuteInputs == BranchInputs

InitExecute ==
  /\ given \in ExecuteInputs
  /\ jack = CompilerMain(given)
  /\ asm = NoAssembler
  /\ vm = NoTranslation
  /\ cpu = NoComputer

\* The compiler past line 163, the translator and the computer, one after
\* the other.
NextExecute ==
  \/ TokenizeUnit \/ ParseUnit \/ CreateCodeWriter \/ AddClassSymbolStep
  \/ BeginSubroutine \/ WriteFunction \/ TranslateOneStatement \/ WriteVMFile
  \/ TranslateVMFile \/ Translate \/ WriteAsmFile \/ LoadProgram \/ Execute

SpecExecute == InitExecute /\ [][NextExecute]_vars


\* ---------------------------------------------------------------------
\* Properties of the Jack compiler.
\* ---------------------------------------------------------------------

\* C18: every integer-constant token the tokenizer produces carries a value
\* between 0 and 32767; a digit sequence denoting a larger value yields no
\* integer-constant token.
C18_IntConstRange ==
  jack.pc \notin {"idle", "Tokenize", "error"} =>
    \A k \in 1..Len(jack.tokens) :
      jack.tokens[k].cls = "IntegerConstantToken" =>
        jack.tokens[k].n >= 0 /\ jack.tokens[k].n <= 32767

\* The function lines among the lines of VM code.
FunctionLines(lines) ==
  SelectSeq(lines, LAMBDA line : Len(line) >= 9 /\ SubSeq(line, 1, 9) = <<"f","u","n","c","t","i","o","n"," ">>)

\* The subroutine of the class of a subroutines input the CodeWriter is in.
CurrentShape ==
  given.shapes[CHOOSE k \in 1..Len(given.shapes) :
                 jack.w.subroutine_name = SubroutineName(k)]

\* C17: for every subroutine the generator emits function ClassName.SubName
\* nLocals, nLocals being the number of names its var declarations declare:
\* once the compiler has stopped on a class, its output holds one such line
\* per subroutine of the class, in order.
C17_FunctionLine ==
  (given.kind = "subroutines" /\ jack.pc \in {"done", "error"}) =>
    FunctionLines(jack.w.output)
      = [k \in 1..Len(given.shapes) |->
           <<"f","u","n","c","t","i","o","n"," ","M","a","i","n",".">> \o SubroutineName(k) \o <<" ">> \o Str(given.shapes[k].n_locals)]

\* The other half of C17: when line 163 is reached, the locals of the
\* subroutine, and only they, hold the indices 0..nLocals-1 of the segment
\* local in declaration order.
LocalIndices ==
  (given.kind = "subroutines" /\ jack.pc = "GetNumberOfLocals") =>
    LET table == jack.w.subroutine_symbol_table
        locals == {name \in DOMAIN table.symbols : table.symbols[name].kind = "local"}
    IN /\ table.cur_indices["local"] = CurrentShape.n_locals
       /\ IF CurrentShape.n_locals = 0 THEN locals = {}
          ELSE /\ locals = {<<"f">>, <<"i">>, <<"j">>}
               /\ table.symbols[<<"f">>].index = 0
               /\ table.symbols[<<"i">>].index = 1
               /\ table.symbols[<<"j">>].index = 2
       /\ DOMAIN table.symbols = locals

\* C19: when several units are compiled in one run, an error in one unit
\* aborts only that unit: once the run has stopped, the .vm file of every
\* unit that is itself free of errors has been written, whatever the order
\* of the units.
C19_UnitsIndependent ==
  (/\ given.kind = "units"
   /\ \E k \in 1..Len(given.jack_files) : given.jack_files[k].path = MainJack
   /\ jack.pc \in {"done", "error"}) =>
    \A k \in 1..Len(given.jack_files) :
      given.jack_files[k].valid => k <= Len(jack.written)

\* C16: the doStatement node the parser builds for do f.bar(7); or for
\* do bar(7, 8); is translated without an error into the code of the call
\* followed by exactly one pop temp 0: once the compiler has stopped, the
\* lines after the function line are that code.
C16_DoStatement ==
  (given.kind = "do" /\ jack.pc \in {"done", "error"}) =>
    /\ jack.err = ""
    /\ jack.w.output # <<>>
    /\ Tail(jack.w.output) = given.expected

StartsWith(line, prefix) ==
  Len(line) >= Len(prefix) /\ SubSeq(line, 1, Len(prefix)) = prefix

\* The last word of a line of VM code.
LastWord(line) ==
  LET spaces == {k \in 1..Len(line) : line[k] = " "}
      last == CHOOSE k \in spaces : \A m \in spaces : m <= k
  IN SubSeq(line, last + 1, Len(line))

\* By how much a VM command changes the height of the stack: a push adds
\* a value, a pop and if-goto take one, a binary operation leaves one for
\* two, call f n leaves one for the n arguments, return takes the value
\* it hands to the caller.
CommandEffect(line) ==
  IF StartsWith(line, <<"p","u","s","h"," ">>) THEN 1
  ELSE IF StartsWith(line, <<"p","o","p"," ">>) \/ StartsWith(line, <<"i","f","-","g","o","t","o"," ">>) THEN 0 - 1
  ELSE IF line = <<"r","e","t","u","r","n">> THEN 0 - 1
  ELSE IF line \in {<<"a","d","d">>, <<"s","u","b">>, <<"a","n","d">>, <<"o","r">>, <<"e","q">>, <<"g","t">>, <<"l","t">>} THEN 0 - 1
  ELSE IF StartsWith(line, <<"c","a","l","l"," ">>) THEN 1 - DigitsVal(LastWord(line))
  ELSE 0

RECURSIVE StackEffect(_)
StackEffect(lines) ==
  IF lines = <<>> THEN 0
  ELSE CommandEffect(lines[1]) + StackEffect(Tail(lines))

\* A statement of the body has been translated without an error; the last
\* one translated, and the code written for it.
StatementDone ==
  /\ given.kind = "statements"
  /\ given.statements # <<>>
  /\ \/ jack.pc = "statements" /\ jack.s > 1
     \/ jack.pc = "class" /\ NextChild(jack) > Len(jack.syntax_tree.children)
     \/ jack.pc = "done"

LastStatement ==
  given.statements[IF jack.pc = "statements" THEN jack.s - 1 ELSE Len(given.statements)]

StatementCode == SubSeq(jack.w.output, jack.from + 1, Len(jack.w.output))

\* C13: the code emitted for a let (plain or array-indexed), do, if or
\* while statement leaves the height of the stack as it was, and the code
\* emitted for a return statement leaves exactly one value for return.
C13_StackBalance ==
  StatementDone =>
    /\ StackEffect(StatementCode) = 0
    /\ StartsWith(LastStatement, <<"r","e","t","u","r","n">>) =>
         /\ StatementCode[Len(StatementCode)] = <<"r","e","t","u","r","n">>
         /\ StackEffect(SubSeq(StatementCode, 1, Len(StatementCode) - 1)) = 1

\* C13 for every statement that holds no array-indexed let.
StackBalanceButArrayLet ==
  (StatementDone /\ ~Contains(LastStatement, <<"l","e","t"," ","a","r","r","[">>)) => C13_StackBalance

SubroutineCode(name) ==
  LET output == jack.w.output
      head == CHOOSE k \in 1..Len(output) :
                StartsWith(output[k], <<"f","u","n","c","t","i","o","n"," ","M","a","i","n",".">> \o name \o <<" ">>)
      later == {k \in head + 1..Len(output) : StartsWith(output[k], <<"f","u","n","c","t","i","o","n"," ">>)}
      last == IF later = {} THEN Len(output)
              ELSE (CHOOSE k \in later : \A m \in later : k <= m) - 1
  IN SubSeq(output, head + 1, last)

RunCode == SubSeq(jack.w.output, 4, Len(jack.w.output))

\* C21: for let arr[e1] = e2; the generator emits push arr, the code of
\* e1 and add, then the code of e2, pop temp 0, pop pointer 1, push temp 0
\* and pop that 0 (also when e2 reads an element of an array), so that
\* nothing the statement pushed stays on the stack.
C21_ArrayLetCode ==
  (given.kind = "arraylet" /\ jack.pc \in {"done", "error"}) =>
    /\ jack.err = ""
    /\ RunCode = <<<<"p","u","s","h"," ","l","o","c","a","l"," ","2">>>> \o given.index.code \o <<<<"a","d","d">>>>
                 \o given.value.code
                 \o <<<<"p","o","p"," ","t","e","m","p"," ","0">>, <<"p","o","p"," ","p","o","i","n","t","e","r"," ","1">>, <<"p","u","s","h"," ","t","e","m","p"," ","0">>, <<"p","o","p"," ","t","h","a","t"," ","0">>>>
    /\ StackEffect(RunCode) = 0

\* What lines 234-253 write for let arr[e1] = e2; instead: the array is
\* pushed before e1 and once more after e2 went to temp 0.
ArrayLetAsWritten ==
  (given.kind = "arraylet" /\ jack.pc \in {"done", "error"}) =>
    /\ jack.err = ""
    /\ RunCode = <<<<"p","u","s","h"," ","l","o","c","a","l"," ","2">>>> \o given.index.code \o given.value.code
                 \o <<<<"p","o","p"," ","t","e","m","p"," ","0">>, <<"p","u","s","h"," ","l","o","c","a","l"," ","2">>, <<"a","d","d">>, <<"p","o","p"," ","p","o","i","n","t","e","r"," ","1">>,
                      <<"p","u","s","h"," ","t","e","m","p"," ","0">>, <<"p","o","p"," ","t","h","a","t"," ","0">>>>
    /\ StackEffect(RunCode) = 1

\* The number of tokens a node of the syntax tree stands for.
RECURSIVE Leaves(_)
Leaves(node) ==
  IF node.cls \in {"KeywordNode", "SymbolNode", "IdentifierNode",
                   "IntegerConstantNode", "StringConstantNode"}
  THEN 1
  ELSE LET RECURSIVE Sum(_)
           Sum(k) == IF k = 0 THEN 0 ELSE Leaves(node.children[k]) + Sum(k - 1)
       IN Sum(Len(node.children))

\* An expression node is term, or term op term.
TermOrTermOpTerm(node) ==
  /\ Len(node.children) \in {1, 3}
  /\ node.children[1].cls = "TermNode"
  /\ Len(node.children) = 3 =>
       /\ node.children[2].cls = "SymbolNode"
       /\ node.children[3].cls = "TermNode"

\* Every expression node at or below node is term, or term op term.
RECURSIVE ExpressionShape(_)
ExpressionShape(node) ==
  /\ node.cls = "ExpressionNode" => TermOrTermOpTerm(node)
  /\ \A k \in 1..Len(node.children) : ExpressionShape(node.children[k])

\* C22: CompileExpression consumes one term and at most one (op, term)
\* pair: every expression node of a syntax tree the parser returns has 1 or
\* 3 children, wherever CompileExpression succeeds among the tokens of a
\* unit the index it returns is that of the first token after the tokens of
\* its node, and a let whose right-hand side chains two operators outside
\* parentheses gives no syntax tree but a SyntaxError.
C22_ExpressionShape ==
  /\ ExpressionShape(jack.syntax_tree)
  /\ jack.pc = "CompileClass" =>
       \A i \in 0..Len(jack.tokens) - 1 :
         LET parsed == CompileExpression(jack.tokens, i)
         IN parsed.err = "" =>
              /\ Len(parsed.nodes) = 1
              /\ ExpressionShape(parsed.nodes[1])
              /\ parsed.i = i + Leaves(parsed.nodes[1])
  /\ (given.kind = "expression" /\ given.chain) =>
       /\ jack.pc \in {"Tokenize", "CompileClass", "error"}
       /\ jack.pc = "error" => jack.err = "SyntaxError"

\* The statements of the first subroutine of the syntax tree.
RunStatements ==
  LET children == jack.syntax_tree.children
      k == CHOOSE k \in 1..Len(children) : children[k].cls = "SubroutineDecNode"
  IN BodyStatements([jack EXCEPT !.c = k])

\* let v = (a + v) + x; has been parsed: the expression of the let has three
\* children and so has the one in parentheses.
C22_Witness ==
  /\ given.kind = "expression"
  /\ given.text = <<"(","a"," ","+"," ","v",")"," ","+"," ","x">>
  /\ jack.pc = "CodeWriter"
  /\ LET let == RunStatements[1]
     IN /\ let.children[4].cls = "ExpressionNode"
        /\ Len(let.children[4].children) = 3
        /\ Len(let.children[4].children[1].children[2].children) = 3

\* The parameterList node of the first subroutine of the syntax tree.
RunParameterList ==
  LET children == jack.syntax_tree.children
      k == CHOOSE k \in 1..Len(children) : children[k].cls = "SubroutineDecNode"
  IN children[k].children[5]

\* The children of the parameterList node of params: type, name and comma
\* for each parameter but the last, type and name for the last.
ParameterChildren(params) ==
  [i \in 1..(IF params = <<>> THEN 0 ELSE 3 * Len(params) - 1) |->
     IF i % 3 = 1
     THEN IF params[(i + 2) \div 3][1] \in KEYWORDS
          THEN KeywordNode(params[(i + 2) \div 3][1])
          ELSE IdentifierNode(params[(i + 2) \div 3][1])
     ELSE IF i % 3 = 2 THEN IdentifierNode(params[(i + 1) \div 3][2])
     ELSE SymbolNode(<<",">>)]

\* C23: ParseParameterList accepts exactly the token sequences of
\* ( type varName (',' type varName)* )?: the parser returns a syntax tree
\* only for a parameter list of that form, a list with a comma missing
\* between two parameters or with a trailing comma raises SyntaxError, and
\* the parameterList node of an accepted list has type, name and comma for
\* every parameter but the last, so that child 3j is the type and child
\* 3j+1 the name of parameter j.
C23_ParameterList ==
  given.kind = "parameters" =>
    /\ jack.pc = "CodeWriter" =>
         /\ given.valid
         /\ RunParameterList
              = NonTerminalNode("ParameterListNode", ParameterChildren(given.params))
    /\ (jack.pc = "error" /\ ~given.valid) => jack.err \in {"SyntaxError", "IndexError"}

\* C23 for the lists that are of the form only.
ParameterListOfValid ==
  (given.kind = "parameters" /\ given.valid) => C23_ParameterList

ReadInto(push, local) ==
  <<<<"p","u","s","h"," ","a","r","g","u","m","e","n","t"," ","0">>, <<"p","o","p"," ","p","o","i","n","t","e","r"," ","0">>>> \o push
  \o <<<<"p","o","p"," ","l","o","c","a","l"," ">> \o Str(local), <<"p","u","s","h"," ","c","o","n","s","t","a","n","t"," ","0">>, <<"r","e","t","u","r","n">>>>

RestOfLines(lines, prefix) ==
  LET with == SelectSeq(lines, LAMBDA line : StartsWith(line, prefix))
  IN [k \in 1..Len(with) |-> SubSeq(with[k], Len(prefix) + 1, Len(with[k]))]

\* The labels the label lines declare and the labels the goto and if-goto
\* lines go to.
Declared(lines) == RestOfLines(lines, <<"l","a","b","e","l"," ">>)

Targets(lines) == Range(RestOfLines(lines, <<"g","o","t","o"," ">>)) \cup Range(RestOfLines(lines, <<"i","f","-","g","o","t","o"," ">>))

\* A statement of the body of a subroutine has just been translated:
\* StatementCode is its code.
StatementTranslated ==
  \/ jack.pc = "statements" /\ jack.s > 1
  \/ jack.pc \in {"class", "done"} /\ jack.from > 0

C27_FunctionOp ==
  (given.kind = "function" /\ cpu.pc = "run") =>
    LET f == cpu.symbols[<<"F","o","o",".","f">>]
        after == f + given.nl * Len(PushOp("constant", 0, <<"F","o","o">>))
        LCL == Rd(cpu.ram, 1)
        SP == Rd(cpu.ram, 0)
    IN /\ Cardinality({k \in 1..Len(vm.result) : vm.result[k] = <<"(","F","o","o",".","f",")">>}) = 1
       /\ cpu.rom[after + 1] = RomA(given.rv)
       /\ cpu.ip = f => (LCL = SP /\ SP = given.ram[0] + 5)
       /\ cpu.ip = after =>
            /\ LCL = given.ram[0] + 5
            /\ SP = LCL + given.nl
            /\ \A i \in 0..given.nl - 1 : Rd(cpu.ram, LCL + i) = 0

\* A function of three locals has pushed its zeros over cells that held
\* other values.
C27_Witness ==
  /\ given.kind = "function"
  /\ given.nl = 3
  /\ cpu.pc = "run"
  /\ cpu.ip = cpu.symbols[<<"F","o","o",".","f">>]
              + 3 * Len(PushOp("constant", 0, <<"F","o","o">>))
  /\ Rd(cpu.ram, 0) = Rd(cpu.ram, 1) + 3
  /\ \A i \in 0..2 : given.ram[Rd(cpu.ram, 1) + i] # 0 /\ Rd(cpu.ram, Rd(cpu.ram, 1) + i) = 0

C29_OperatorCode ==
  (given.kind = "operator" /\ jack.pc \in {"done", "error"}) =>
    /\ jack.err = ""
    /\ RunCode = <<<<"p","u","s","h"," ","a","r","g","u","m","e","n","t"," ","1">>, <<"p","u","s","h"," ","t","h","i","s"," ","0">>, given.vm, <<"p","o","p"," ","l","o","c","a","l"," ","1">>>>

\* C29 for the operators whose symbol is the same in XML.
OperatorCodeUnescaped ==
  (given.kind = "operator" /\ given.symbol \notin {"<", ">", "&"}) => C29_OperatorCode

\* What becomes of let v = a op x; for < > and &: TranslateOp does not
\* know the node's value and the compilation ends with an AssertionError
\* after the code of the two terms.
OperatorEscaped ==
  (given.kind = "operator" /\ given.symbol \in {"<", ">", "&"}
   /\ jack.pc \in {"done", "error"}) =>
    /\ jack.err = "AssertionError"
    /\ RunCode = <<<<"p","u","s","h"," ","a","r","g","u","m","e","n","t"," ","1">>, <<"p","u","s","h"," ","t","h","i","s"," ","0">>>>

\* The order of the operators for an expression node of three terms: the
\* node of let v = a op x; with - a appended gives the code of a, x, a,
\* then sub, then the command of op.
OperatorsLastFirst ==
  (given.kind = "operator" /\ given.symbol \notin {"<", ">", "&"} /\ jack.pc = "done") =>
    LET expr == RunStatements[1].children[4]
        longer == [expr EXCEPT !.children = @ \o <<SymbolNode(<<"-">>), expr.children[1]>>]
        w == TranslateExpression([jack.w EXCEPT !.output = <<>>], longer)
    IN /\ w.err = ""
       /\ w.output = <<<<"p","u","s","h"," ","a","r","g","u","m","e","n","t"," ","1">>, <<"p","u","s","h"," ","t","h","i","s"," ","0">>, <<"p","u","s","h"," ","a","r","g","u","m","e","n","t"," ","1">>, <<"s","u","b">>, given.vm>>

\* C30: the removal of comments alters neither a string constant nor the
\* code outside comments: once a unit is tokenized, a string constant that
\* holds // or /* has given a StringConstant token with all the text
\* between its quotes, and the tokens are those of the same lines without
\* their comments, a /* inside a line comment starting no block comment.
C30_CommentsAndStrings ==
  (given.kind = "comment" /\ jack.pc # "Tokenize") =>
    /\ given.payload # <<>> => StringConstantToken(given.payload) \in Range(jack.tokens)
    /\ given.clean # <<>> =>
         jack.tokens = Tokenize(CommentUnit(given.clean).text).tokens

\* C30 for the lines in which no comment mark stands inside a string
\* constant or a line comment.
CommentsOfPlainLines ==
  (given.kind = "comment" /\ given.plain) => C30_CommentsAndStrings

\* The tokenizer has cut the block comment out of the string constant
\* "a/*b*/c" and given the token of "ac".
StringCutShort ==
  (given.kind = "comment" /\ given.payload = <<"a","/","*","b","*","/","c">> /\ jack.pc # "Tokenize") =>
    StringConstantToken(<<"a","c">>) \in Range(jack.tokens)

=============================================================================
